---- MODULE Spec2Model ----
(***************************************************************************)
(* Turn-based combat engine of the Darth Vader RPG: the player character   *)
(* (DarthVader), the suit (SuitSystem), the Force power catalog            *)
(* (ForcePowerSystem), the regular combat engine (CombatSystem) and the    *)
(* boss encounter engine (BossFightSystem).                                *)
(*                                                                         *)
(* Python objects are records, methods are operators from records to       *)
(* records.  A method that draws random numbers is an operator that        *)
(* returns the set of all results it can produce.                          *)
(***************************************************************************)
EXTENDS Integers, Sequences, FiniteSets, TLC

VARIABLES
    vader,          \* DarthVader: health, force points, psychological state
    suit,           \* SuitSystem: integrity, pain, breathing, credits
    force_powers,   \* ForcePowerSystem: learned powers, cooldowns, counters
    combat_state,   \* CombatSystem.combat_state (started = FALSE models None)
    boss,           \* BossFightSystem.current_boss (present = FALSE models None)
    boss_fight,     \* BossFightSystem: turn_number, scripted_loss flags
    calls,          \* number of engine calls so far that changed the state
    used_turn,      \* per power: turn_number of its last successful use, 0 if none
    phases_entered  \* the phases the boss has entered since start_boss_fight

vars == <<vader, suit, force_powers, combat_state, boss, boss_fight, calls,
          used_turn, phases_entered>>

----------------------------------------------------------------------------
(* Bounds of the model *)

MaxCalls == 5       \* state-changing engine calls in one run

MaxCombatTurns == 14 \* turn_number of a fight in which legendary powers are overused
MaxLegendary == 4   \* uses of one legendary power
MaxTurns == 9       \* end_turn calls in one scripted duel
MaxAmount == 60     \* largest amount tried on take_damage and spend_force_points

----------------------------------------------------------------------------
(* Arithmetic helpers *)

Max(a, b) == IF a >= b THEN a ELSE b

Min(a, b) == IF a <= b THEN a ELSE b

\* Python's floor division for a positive divisor
FloorDiv(a, b) == a \div b

RollValues == 1..100    \* random.randint(1, 100)

NoArg == [none |-> TRUE]

----------------------------------------------------------------------------
(* DarthVader (src/src/character/vader.py) *)

strength == 9

force_point_regen_rate == 10

\* DarthVader.__init__: the fields the combat engines read and write.
\* health, force points and rage are parameters because the character
\* enters an encounter with the health and force points left by earlier
\* fights and the rage set by the story.
DarthVader(health, force_points, rage) ==
    [ current_health |-> health, max_health |-> 150,
      current_force_points |-> force_points, max_force_points |-> 100,
      force_exhaustion_turns |-> 0,
      darkness |-> 50, control |-> 40, rage |-> rage,
      level |-> 1, experience |-> 0 ]

_apply_level_up_bonuses(v) ==
    [v EXCEPT !.max_force_points = v.max_force_points + 10,
              !.current_force_points = v.max_force_points + 10,
              !.max_health = v.max_health + 15,
              !.current_health = v.max_health + 15]

add_experience(v, amount) ==
    LET xp == v.experience + amount
        required_xp == v.level * 100
    IN IF xp >= required_xp
       THEN _apply_level_up_bonuses(
                [v EXCEPT !.level = v.level + 1, !.experience = xp - required_xp])
       ELSE [v EXCEPT !.experience = xp]

modify_darkness(v, amount) ==
    [v EXCEPT !.darkness = Max(0, Min(100, v.darkness + amount))]

modify_control(v, amount) ==
    [v EXCEPT !.control = Max(0, Min(100, v.control + amount))]

\* Mutation: the rage that refuses death starts above 90 instead of above 80
DarthVader_take_damage_rage90(v, amount) ==
    LET h == v.current_health - amount
    IN IF h <= 0
       THEN IF v.rage > 90
            THEN [v |-> [v EXCEPT !.current_health = 1], alive |-> TRUE]
            ELSE [v |-> [v EXCEPT !.current_health = h], alive |-> FALSE]
       ELSE [v |-> [v EXCEPT !.current_health = h], alive |-> TRUE]

\* DarthVader.take_damage: returns the new character and the "still alive" flag
DarthVader_take_damage(v, amount) ==
    LET h == v.current_health - amount
    IN IF h <= 0
       THEN IF v.rage > 80
            THEN [v |-> [v EXCEPT !.current_health = 1], alive |-> TRUE]
            ELSE [v |-> [v EXCEPT !.current_health = h], alive |-> FALSE]
       ELSE [v |-> [v EXCEPT !.current_health = h], alive |-> TRUE]

heal(v, amount) ==
    [v EXCEPT !.current_health = Min(v.max_health, v.current_health + amount)]

spend_force_points(v, amount) ==
    IF v.current_force_points >= amount
    THEN [v |-> [v EXCEPT !.current_force_points = v.current_force_points - amount],
          ok |-> TRUE]
    ELSE [v |-> v, ok |-> FALSE]

\* Mutation: the restored points are not clamped to the maximum
restore_force_points_unclamped(v, amount) ==
    [v EXCEPT !.current_force_points = v.current_force_points + amount]

restore_force_points(v, amount) ==
    [v EXCEPT !.current_force_points =
                  Min(v.max_force_points, v.current_force_points + amount)]

regenerate_force_points(v, s) ==
    LET exhausted == v.force_exhaustion_turns > 0
        r1 == IF exhausted THEN FloorDiv(force_point_regen_rate, 2)
                           ELSE force_point_regen_rate
        r2 == IF s.breathing_disrupted THEN FloorDiv(r1, 2) ELSE r1
        base_regen == IF v.rage >= 80 THEN r2 + 5 ELSE r2
        new_fp == Min(v.max_force_points, v.current_force_points + base_regen)
    IN [v |-> [v EXCEPT !.current_force_points = new_fp,
                        !.force_exhaustion_turns =
                            IF exhausted THEN v.force_exhaustion_turns - 1
                                         ELSE v.force_exhaustion_turns],
        regen |-> new_fp - v.current_force_points]

----------------------------------------------------------------------------
(* SuitSystem (src/src/character/suit_system.py) *)

SuitComponent ==
    {"helmet", "chest_plate", "respirator", "life_support", "limbs", "armor",
     "control_panel"}

pain_threshold == 60

SuitSystem ==
    [ integrity |-> 100,
      component_integrity |-> [c \in SuitComponent |-> 100],
      current_pain_level |-> 40,
      breathing_disrupted |-> FALSE,
      needs_maintenance |-> FALSE,
      credits |-> 5000 ]

RECURSIVE SumOver(_, _)
SumOver(f, S) ==
    IF S = {} THEN 0
    ELSE LET c == CHOOSE x \in S : TRUE IN f[c] + SumOver(f, S \ {c})

get_overall_integrity(s) ==
    [s EXCEPT !.integrity =
        FloorDiv(SumOver(s.component_integrity, SuitComponent),
                 Cardinality(SuitComponent))]

\* SuitSystem.take_suit_damage with component = None (the only form the
\* combat engines use): general damage distributed across the components
take_suit_damage(s, amount) ==
    LET damage_amount == FloorDiv(amount, Cardinality(SuitComponent))
        s1 == [s EXCEPT !.component_integrity =
                  [c \in SuitComponent |->
                      Max(0, s.component_integrity[c] - damage_amount)]]
        s2 == get_overall_integrity(s1)
        s3 == IF s2.integrity < 30 THEN [s2 EXCEPT !.needs_maintenance = TRUE]
                                   ELSE s2
        pain_increase == FloorDiv(amount, 2)
    IN [s3 EXCEPT !.current_pain_level =
                      Min(100, s3.current_pain_level + pain_increase)]

get_pain_modifier(s) ==
    IF s.current_pain_level > pain_threshold
    THEN LET excess_pain == s.current_pain_level - pain_threshold
         IN [force_power_bonus |-> FloorDiv(excess_pain, 10),
             control_penalty |-> FloorDiv(excess_pain, 15),
             attack_penalty |-> FloorDiv(excess_pain, 20)]
    ELSE [force_power_bonus |-> 0, control_penalty |-> 0, attack_penalty |-> 0]

----------------------------------------------------------------------------
(* ForcePowerSystem (src/src/character/force_powers.py) *)

\* The part of the catalog of _initialize_powers that the model exercises
Powers == {"force_push", "force_choke", "force_grip", "force_maelstrom"}

\* A power id that is in no catalog
UnknownPower == "force_heal"

ForcePower(tier, cost, cooldown, damage, duration, area, sd, sr, risk, learned) ==
    [ tier |-> tier, force_point_cost |-> cost, cooldown_turns |-> cooldown,
      base_damage |-> damage, duration_turns |-> duration, area_effect |-> area,
      scales_with_darkness |-> sd, scales_with_rage |-> sr,
      suit_damage_risk |-> risk, learned |-> learned ]

_initialize_powers ==
    [ p \in Powers |->
        CASE p = "force_push" ->
               ForcePower("BASIC", 10, 0, 15, 1, TRUE, FALSE, FALSE, 0, TRUE)
          [] p = "force_choke" ->
               ForcePower("ADVANCED", 20, 1, 35, 3, FALSE, TRUE, TRUE, 0, TRUE)
          [] p = "force_grip" ->
               ForcePower("ADVANCED", 15, 2, 25, 2, FALSE, TRUE, FALSE, 0, FALSE)
          [] p = "force_maelstrom" ->
               ForcePower("LEGENDARY", 50, 5, 80, 1, TRUE, TRUE, TRUE, 0, FALSE) ]

\* ForcePowerSystem.__init__ followed by learn_power for each id in extra
ForcePowerSystem(extra) ==
    [ learned_powers |-> {p \in Powers : _initialize_powers[p].learned} \cup extra,
      current_cooldown |-> [p \in Powers |-> 0],
      mastery_level |-> [p \in Powers |-> 0],
      active_effects |-> [p \in Powers |-> 0],      \* 0: no entry in the dict
      powers_used_count |-> [p \in Powers |-> 0],
      force_points_spent_total |-> 0,
      legendary_uses_this_combat |-> 0,
      force_sensitive_kills |-> 0,
      force_lightning_attempts |-> 0,
      force_lightning_successes |-> 0 ]

\* Mutation: the force points are checked before the cooldown
can_use_power_points_first(fps, power_id, current_force_points) ==
    IF power_id \notin fps.learned_powers
    THEN [ok |-> FALSE, reason |-> [kind |-> "not_learned"]]
    ELSE IF current_force_points < _initialize_powers[power_id].force_point_cost
    THEN [ok |-> FALSE,
          reason |-> [kind |-> "need_force_points",
                      needed |-> _initialize_powers[power_id].force_point_cost,
                      have |-> current_force_points]]
    ELSE IF fps.current_cooldown[power_id] > 0
    THEN [ok |-> FALSE,
          reason |-> [kind |-> "on_cooldown",
                      turns |-> fps.current_cooldown[power_id]]]
    ELSE [ok |-> TRUE, reason |-> [kind |-> "can_use"]]

\* ForcePowerSystem.can_use_power: returns (can_use, reason)
can_use_power(fps, power_id, current_force_points) ==
    IF power_id \notin fps.learned_powers
    THEN [ok |-> FALSE, reason |-> [kind |-> "not_learned"]]
    ELSE IF fps.current_cooldown[power_id] > 0
    THEN [ok |-> FALSE,
          reason |-> [kind |-> "on_cooldown",
                      turns |-> fps.current_cooldown[power_id]]]
    ELSE IF current_force_points < _initialize_powers[power_id].force_point_cost
    THEN [ok |-> FALSE,
          reason |-> [kind |-> "need_force_points",
                      needed |-> _initialize_powers[power_id].force_point_cost,
                      have |-> current_force_points]]
    ELSE [ok |-> TRUE, reason |-> [kind |-> "can_use"]]

\* ForcePowerSystem.use_power: the set of results, one per outcome of the two
\* Force Lightning rolls (a single result for every other power)
use_power(fps, power_id, vader_darkness, vader_rage, s) ==
    IF power_id \notin fps.learned_powers
    THEN {[success |-> FALSE, fps |-> fps, suit |-> s, effects |-> [damage |-> 0]]}
    ELSE
    LET power == _initialize_powers[power_id]
        legendary == IF power.tier = "LEGENDARY"
                     THEN fps.legendary_uses_this_combat + 1
                     ELSE fps.legendary_uses_this_combat
        d1 == IF power.scales_with_darkness
              THEN power.base_damage + FloorDiv(vader_darkness, 10) * 5
              ELSE power.base_damage
        d2 == IF power.scales_with_rage
              THEN d1 + FloorDiv(vader_rage, 10) * 3
              ELSE d1
        mastery == Min(100, fps.mastery_level[power_id] + 2)
        f1 == [fps EXCEPT
                 !.legendary_uses_this_combat = legendary,
                 !.current_cooldown[power_id] = power.cooldown_turns,
                 !.force_points_spent_total = @ + power.force_point_cost,
                 !.powers_used_count[power_id] = @ + 1,
                 !.mastery_level[power_id] = mastery,
                 !.active_effects[power_id] =
                     IF power.duration_turns > 1 THEN power.duration_turns ELSE @]
        Effects(damage, suit_damage) ==
            [damage |-> damage, area_effect |-> power.area_effect,
             duration |-> power.duration_turns, suit_damage |-> suit_damage,
             force_points_spent |-> power.force_point_cost]
    IN IF power_id = "force_lightning"
       THEN LET suit_damages ==
                    {IF r <= power.suit_damage_risk THEN a ELSE 0 :
                        r \in RollValues, a \in 10..25}
                success_chance == 60 + FloorDiv(mastery, 2)
                lightning == {r <= success_chance : r \in RollValues}
            IN { [success |-> TRUE,
                  fps |-> [f1 EXCEPT
                             !.force_lightning_attempts = @ + 1,
                             !.force_lightning_successes =
                                 IF ls THEN @ + 1 ELSE @],
                  suit |-> IF sdmg > 0 THEN take_suit_damage(s, sdmg) ELSE s,
                  effects |-> Effects(IF ls THEN d2 ELSE FloorDiv(d2, 3), sdmg)] :
                 sdmg \in suit_damages, ls \in lightning }
       ELSE {[success |-> TRUE, fps |-> f1, suit |-> s, effects |-> Effects(d2, 0)]}

\* Mutation: a cooldown stops at 1 instead of 0
update_cooldowns_late(fps) ==
    [fps EXCEPT
       !.current_cooldown =
           [p \in Powers |->
               IF p \in fps.learned_powers /\ fps.current_cooldown[p] > 1
               THEN fps.current_cooldown[p] - 1
               ELSE fps.current_cooldown[p]],
       !.active_effects =
           [p \in Powers |->
               IF fps.active_effects[p] > 0 THEN fps.active_effects[p] - 1 ELSE 0]]

update_cooldowns(fps) ==
    [fps EXCEPT
       !.current_cooldown =
           [p \in Powers |->
               IF p \in fps.learned_powers /\ fps.current_cooldown[p] > 0
               THEN fps.current_cooldown[p] - 1
               ELSE fps.current_cooldown[p]],
       !.active_effects =
           [p \in Powers |->
               IF fps.active_effects[p] > 0 THEN fps.active_effects[p] - 1 ELSE 0]]

reset_combat_tracking(fps) ==
    [fps EXCEPT !.legendary_uses_this_combat = 0, !.force_sensitive_kills = 0]

\* Mutation: a force-sensitive opponent's death is worth no more than another's
on_enemy_killed_flat(fps, enemy_is_force_sensitive) ==
    IF enemy_is_force_sensitive
    THEN [fps |-> [fps EXCEPT !.force_sensitive_kills = @ + 1], bonus_fp |-> 5]
    ELSE [fps |-> fps, bonus_fp |-> 5]

on_enemy_killed(fps, enemy_is_force_sensitive) ==
    IF enemy_is_force_sensitive
    THEN [fps |-> [fps EXCEPT !.force_sensitive_kills = @ + 1], bonus_fp |-> 10]
    ELSE [fps |-> fps, bonus_fp |-> 5]

\* Mutation: the exhaustion lasts two turns
check_legendary_exhaustion_short(fps, v) ==
    IF fps.legendary_uses_this_combat >= 3
    THEN [fps |-> [fps EXCEPT !.legendary_uses_this_combat = 0],
          v |-> [v EXCEPT !.force_exhaustion_turns = 2],
          exhausted |-> TRUE]
    ELSE [fps |-> fps, v |-> v, exhausted |-> FALSE]

check_legendary_exhaustion(fps, v) ==
    IF fps.legendary_uses_this_combat >= 3
    THEN [fps |-> [fps EXCEPT !.legendary_uses_this_combat = 0],
          v |-> [v EXCEPT !.force_exhaustion_turns = 3],
          exhausted |-> TRUE]
    ELSE [fps |-> fps, v |-> v, exhausted |-> FALSE]

----------------------------------------------------------------------------
(* Enemy (src/src/combat/combat_system.py) *)

Enemy(id, max_hp, current_hp, attack_damage, defense, ai_behavior, force_sensitive, enemy_force_points, force_resistance, lightsaber_resistance, credits_drop, experience_value) ==
    [ id |-> id, max_hp |-> max_hp, current_hp |-> current_hp,
      attack_damage |-> attack_damage, defense |-> defense,
      ai_behavior |-> ai_behavior, morale |-> 100,
      force_sensitive |-> force_sensitive, force_points |-> enemy_force_points,
      is_stunned |-> FALSE, is_feared |-> FALSE, is_defending |-> FALSE,
      is_alive |-> TRUE,
      force_resistance |-> force_resistance,
      lightsaber_resistance |-> lightsaber_resistance,
      credits_drop |-> credits_drop, experience_value |-> experience_value ]

\* create_enemy: the templates, with the id the caller's list position
create_enemy(enemy_type, id) ==
    CASE enemy_type = "STORMTROOPER" ->
           Enemy(id, 25, 25, 12, 3, "DEFENSIVE", FALSE, 0, 0, 0, 50, 15)
      [] enemy_type = "REBEL_VETERAN" ->
           Enemy(id, 40, 40, 18, 5, "TACTICAL", FALSE, 0, 0, 0, 100, 25)
      [] enemy_type = "JEDI_SURVIVOR" ->
           Enemy(id, 80, 80, 30, 10, "TACTICAL", TRUE, 50, 40, 15, 0, 100)
      [] enemy_type = "BATTLE_DROID" ->
           Enemy(id, 30, 30, 15, 2, "CALCULATED", FALSE, 0, 100, 0, 25, 20)
      [] OTHER ->
           Enemy(id, 30, 30, 15, 3, "AGGRESSIVE", FALSE, 0, 0, 0, 50, 20)

\* Mutation: the damage left after defense has no minimum of 1
Enemy_take_damage_no_minimum(e, amount) ==
    LET actual_damage == Max(0, amount - e.defense)
        hp == e.current_hp - actual_damage
        morale == IF hp * 10 < e.max_hp * 3
                  THEN Max(0, e.morale - 20) ELSE e.morale
    IN IF hp <= 0
       THEN [e |-> [e EXCEPT !.current_hp = 0, !.morale = morale,
                             !.is_alive = FALSE],
             actual_damage |-> actual_damage, killed |-> TRUE]
       ELSE [e |-> [e EXCEPT !.current_hp = hp, !.morale = morale],
             actual_damage |-> actual_damage, killed |-> FALSE]

\* Enemy.take_damage: returns (enemy, actual_damage_taken, is_killed)
Enemy_take_damage(e, amount) ==
    LET actual_damage == Max(1, amount - e.defense)
        hp == e.current_hp - actual_damage
        morale == IF hp * 10 < e.max_hp * 3      \* current_hp < max_hp * 0.3
                  THEN Max(0, e.morale - 20) ELSE e.morale
    IN IF hp <= 0
       THEN [e |-> [e EXCEPT !.current_hp = 0, !.morale = morale,
                             !.is_alive = FALSE],
             actual_damage |-> actual_damage, killed |-> TRUE]
       ELSE [e |-> [e EXCEPT !.current_hp = hp, !.morale = morale],
             actual_damage |-> actual_damage, killed |-> FALSE]

\* current_hp <= max_hp * 0.25 and current_hp > 0
\* Mutation: helpless at half of max_hp
is_helpless_half(e) == e.current_hp * 2 <= e.max_hp /\ e.current_hp > 0

\* Enemy.is_helpless: current_hp <= max_hp * 0.25 and current_hp > 0
is_helpless(e) == e.current_hp * 4 <= e.max_hp /\ e.current_hp > 0

----------------------------------------------------------------------------
(* CombatSystem (src/src/combat/combat_system.py)                          *)
(* A world w is the record [vader, suit, fps, cs, ret] of the objects a    *)
(* CombatSystem method reads and writes and of the value it returns.       *)

CombatState(enemies) ==
    [ started |-> TRUE, turn_number |-> 1, vader_turn |-> TRUE,
      combat_active |-> TRUE, enemies |-> enemies, enemies_killed |-> 0,
      vader_defended_this_turn |-> FALSE, vader_can_retreat |-> TRUE,
      victory_type |-> "None", total_damage_dealt |-> 0,
      total_damage_taken |-> 0, helpless_enemies |-> <<>> ]

\* CombatSystem.__init__: combat_state is None
NoCombat == [CombatState(<<>>) EXCEPT !.started = FALSE]

NoTarget == 0       \* target_id = None

InSeq(x, s) == \E k \in 1..Len(s) : s[k] = x

\* list.remove: drops the first occurrence
RemoveFirst(s, x) ==
    LET k == CHOOSE j \in 1..Len(s) :
                 s[j] = x /\ \A m \in 1..(j - 1) : s[m] # x
    IN SubSeq(s, 1, k - 1) \o SubSeq(s, k + 1, Len(s))

\* CombatSystem._get_enemy_by_id: position of the first enemy with that id,
\* 0 for None
_get_enemy_by_id(cs, enemy_id) ==
    IF \E k \in 1..Len(cs.enemies) : cs.enemies[k].id = enemy_id
    THEN CHOOSE k \in 1..Len(cs.enemies) :
             cs.enemies[k].id = enemy_id
             /\ \A m \in 1..(k - 1) : cs.enemies[m].id # enemy_id
    ELSE 0

start_combat(w, enemies) ==
    [w EXCEPT !.cs = CombatState(enemies),
              !.fps = reset_combat_tracking(w.fps),
              !.ret = [success |-> TRUE]]

_handle_enemy_death(w, enemy) ==
    LET k == on_enemy_killed(w.fps, enemy.force_sensitive)
        v1 == [w.vader EXCEPT !.current_force_points =
                  Min(w.vader.max_force_points,
                      w.vader.current_force_points + k.bonus_fp)]
    IN [w EXCEPT !.cs.enemies_killed = @ + 1,
                 !.fps = k.fps,
                 !.suit.credits = @ + enemy.credits_drop,
                 !.vader = add_experience(v1, enemy.experience_value)]

vader_attack(w, target_id) ==
    LET i == _get_enemy_by_id(w.cs, target_id) IN
    IF i = 0 \/ ~w.cs.enemies[i].is_alive
    THEN [w EXCEPT !.ret = [success |-> FALSE, message |-> "Invalid target"]]
    ELSE
    LET target == w.cs.enemies[i]
        base_damage == 40 + (strength * 2)
        damage_penalty == get_pain_modifier(w.suit).attack_penalty
        final_damage ==
            Max(5, base_damage - damage_penalty - target.lightsaber_resistance)
        td == Enemy_take_damage(target, final_damage)
        w1 == [w EXCEPT !.cs.enemies[i] = td.e,
                        !.cs.total_damage_dealt = @ + td.actual_damage,
                        !.ret = [success |-> TRUE, target |-> target_id,
                                 damage |-> td.actual_damage,
                                 killed |-> td.killed]]
    IN IF td.killed
       THEN _handle_enemy_death(w1, td.e)
       ELSE IF is_helpless(td.e) /\ ~InSeq(target_id, w1.cs.helpless_enemies)
            THEN [w1 EXCEPT !.cs.helpless_enemies = Append(@, target_id)]
            ELSE w1

\* Mutation: a resisted Force hit passes no damage on to the target
_apply_force_damage_nullified(w, i, damage) ==
    LET target == w.cs.enemies[i]
        resists == IF target.force_resistance > 0
                   THEN {r <= target.force_resistance : r \in RollValues}
                   ELSE {FALSE}
    IN { LET td == Enemy_take_damage(target, IF resisted THEN 0 ELSE damage)
             w1 == [w EXCEPT !.cs.enemies[i] = td.e,
                             !.cs.total_damage_dealt = @ + td.actual_damage]
         IN [w |-> IF td.killed THEN _handle_enemy_death(w1, td.e) ELSE w1,
             damage |-> td.actual_damage, killed |-> td.killed] :
         resisted \in resists }

\* CombatSystem._apply_force_damage on the enemy at position i: one result
\* for each outcome of the resistance roll
_apply_force_damage(w, i, damage) ==
    LET target == w.cs.enemies[i]
        resists == IF target.force_resistance > 0
                   THEN {r <= target.force_resistance : r \in RollValues}
                   ELSE {FALSE}
    IN { LET td == Enemy_take_damage(
                       target, IF resisted THEN FloorDiv(damage, 2) ELSE damage)
             w1 == [w EXCEPT !.cs.enemies[i] = td.e,
                             !.cs.total_damage_dealt = @ + td.actual_damage]
         IN [w |-> IF td.killed THEN _handle_enemy_death(w1, td.e) ELSE w1,
             damage |-> td.actual_damage, killed |-> td.killed] :
         resisted \in resists }

\* The loop of vader_use_force_power over all enemies, from position i on
RECURSIVE hit_all_alive(_, _, _)
hit_all_alive(w, i, damage) ==
    IF i > Len(w.cs.enemies) THEN {w}
    ELSE IF w.cs.enemies[i].is_alive
    THEN UNION { hit_all_alive(
                    [r.w EXCEPT
                       !.ret.targets_hit = Append(@, w.cs.enemies[i].id),
                       !.ret.kills = IF r.killed
                                     THEN Append(@, w.cs.enemies[i].id) ELSE @],
                    i + 1, damage) :
                 r \in _apply_force_damage(w, i, damage) }
    ELSE hit_all_alive(w, i + 1, damage)

vader_use_force_power(w, power_id, target_id) ==
    LET can_use == can_use_power(w.fps, power_id, w.vader.current_force_points) IN
    IF ~can_use.ok
    THEN {[w EXCEPT !.ret = [success |-> FALSE, message |-> can_use.reason]]}
    ELSE
    LET power == _initialize_powers[power_id]
        v1 == spend_force_points(w.vader, power.force_point_cost).v
        AfterUse(u) ==
            IF ~u.success
            THEN {[w EXCEPT !.vader = v1, !.fps = u.fps, !.suit = u.suit,
                            !.ret = [success |-> FALSE,
                                     message |-> [kind |-> "not_learned"]]]}
            ELSE
            LET w1 == [w EXCEPT !.vader = v1, !.fps = u.fps, !.suit = u.suit,
                          !.ret = [success |-> TRUE, power_name |-> power_id,
                                   damage |-> u.effects.damage,
                                   area_effect |-> u.effects.area_effect,
                                   targets_hit |-> <<>>, kills |-> <<>>]]
                i == _get_enemy_by_id(w.cs, target_id)
                hit == IF u.effects.damage > 0
                       THEN IF power.area_effect
                            THEN hit_all_alive(w1, 1, u.effects.damage)
                            ELSE IF target_id # NoTarget /\ i # 0
                                    /\ w.cs.enemies[i].is_alive
                            THEN { [r.w EXCEPT
                                      !.ret.targets_hit = Append(@, target_id),
                                      !.ret.kills = IF r.killed
                                                    THEN Append(@, target_id)
                                                    ELSE @] :
                                   r \in _apply_force_damage(
                                             w1, i, u.effects.damage) }
                            ELSE {w1}
                       ELSE {w1}
            IN { LET x == check_legendary_exhaustion(w2.fps, w2.vader)
                 IN [w2 EXCEPT !.fps = x.fps, !.vader = x.v] : w2 \in hit }
    IN UNION { AfterUse(u) :
               u \in use_power(w.fps, power_id, v1.darkness, v1.rage, w.suit) }

vader_defend(w) ==
    [w EXCEPT !.cs.vader_defended_this_turn = TRUE,
              !.ret = [success |-> TRUE, message |-> "Defending"]]

vader_meditate(w) ==
    [w EXCEPT !.vader = restore_force_points(w.vader, 30),
              !.ret = [success |-> TRUE, fp_restored |-> 30, vulnerable |-> TRUE]]

\* Mutation: the damaged suit's bonus is given to every suit
vader_retreat_roll_easy(w, roll) ==
    IF roll <= 60 + 20
    THEN [w EXCEPT !.cs.combat_active = FALSE,
                   !.cs.victory_type = "retreat",
                   !.ret = [success |-> TRUE, message |-> "Successfully retreated"]]
    ELSE [w EXCEPT !.ret = [success |-> FALSE, message |-> "Retreat blocked",
                            penalty |-> TRUE]]

\* CombatSystem.vader_retreat when random.randint(1, 100) gives roll
vader_retreat_roll(w, roll) ==
    LET success_chance == IF w.suit.integrity < 50 THEN 60 + 20 ELSE 60
    IN IF roll <= success_chance
       THEN [w EXCEPT !.cs.combat_active = FALSE,
                      !.cs.victory_type = "retreat",
                      !.ret = [success |-> TRUE,
                               message |-> "Successfully retreated"]]
       ELSE [w EXCEPT !.ret = [success |-> FALSE, message |-> "Retreat blocked",
                               penalty |-> TRUE]]

\* CombatSystem.vader_retreat: one result for each outcome of the roll
vader_retreat(w) ==
    LET success_chance == IF w.suit.integrity < 50 THEN 60 + 20 ELSE 60
    IN { IF escaped
         THEN [w EXCEPT !.cs.combat_active = FALSE,
                        !.cs.victory_type = "retreat",
                        !.ret = [success |-> TRUE,
                                 message |-> "Successfully retreated"]]
         ELSE [w EXCEPT !.ret = [success |-> FALSE, message |-> "Retreat blocked",
                                 penalty |-> TRUE]] :
         escaped \in {roll <= success_chance : roll \in RollValues} }

ExecuteMethods == {"quick", "choke", "brutal", "spare"}

execute_enemy(w, target_id, method) ==
    LET i == _get_enemy_by_id(w.cs, target_id) IN
    IF i = 0 \/ ~w.cs.enemies[i].is_alive \/ ~is_helpless(w.cs.enemies[i])
    THEN [w EXCEPT !.ret = [success |-> FALSE,
                            message |-> "Cannot execute this target"]]
    ELSE
    LET n == Len(w.cs.enemies)
        dead == [w.cs.enemies[i] EXCEPT !.current_hp = 0, !.is_alive = FALSE]
        Terrify(amount, fear) ==
            [k \in 1..n |->
                LET e == w.cs.enemies[k] IN
                IF k = i THEN dead
                ELSE IF e.is_alive /\ e.id # target_id
                THEN LET m == Max(0, e.morale - amount)
                     IN [e EXCEPT !.morale = m,
                                  !.is_feared = IF fear /\ m < 20 THEN TRUE ELSE @]
                ELSE e]
        enemies ==
            CASE method = "quick" -> [w.cs.enemies EXCEPT ![i] = dead]
              [] method = "choke" -> Terrify(30, FALSE)
              [] method = "brutal" -> Terrify(50, TRUE)
              [] method = "spare" ->
                   [w.cs.enemies EXCEPT ![i].is_alive = FALSE]
              [] OTHER -> w.cs.enemies
        darkness_change ==
            CASE method = "choke" -> 5 [] method = "brutal" -> 10
              [] method = "spare" -> -3 [] OTHER -> 0
        control_change ==
            CASE method = "brutal" -> -5 [] method = "spare" -> 5 [] OTHER -> 0
        killed == method # "spare"          \* result.get("killed", True)
        w1 == [w EXCEPT !.cs.enemies = enemies,
                        !.ret = [success |-> TRUE, target |-> target_id,
                                 method |-> method, killed |-> killed,
                                 darkness_change |-> darkness_change,
                                 control_change |-> control_change]]
        w2 == IF killed THEN _handle_enemy_death(w1, enemies[i]) ELSE w1
    IN IF InSeq(target_id, w2.cs.helpless_enemies)
       THEN [w2 EXCEPT !.cs.helpless_enemies = RemoveFirst(@, target_id)]
       ELSE w2

\* Mutation: cowering is decided before fleeing
_enemy_ai_decision_cower_first(enemy, flee_roll, cower_roll) ==
    IF enemy.is_feared /\ cower_roll THEN "cower"
    ELSE IF enemy.morale < 20 /\ ~enemy.force_sensitive /\ flee_roll THEN "flee"
    ELSE CASE enemy.ai_behavior = "DEFENSIVE" ->
                IF enemy.current_hp * 10 < enemy.max_hp * 4
                THEN "defend" ELSE "attack"
           [] enemy.ai_behavior = "TACTICAL" ->
                IF enemy.current_hp * 10 < enemy.max_hp * 3
                THEN "defend"
                ELSE IF enemy.force_sensitive /\ enemy.force_points >= 20
                THEN "force_power"
                ELSE "attack"
           [] OTHER -> "attack"

\* CombatSystem._enemy_ai_decision, given whether the flee roll (<= 50) and
\* the cower roll (<= 30) succeed
_enemy_ai_decision(enemy, flee_roll, cower_roll) ==
    IF enemy.morale < 20 /\ ~enemy.force_sensitive /\ flee_roll THEN "flee"
    ELSE IF enemy.is_feared /\ cower_roll THEN "cower"
    ELSE CASE enemy.ai_behavior = "AGGRESSIVE" -> "attack"
           [] enemy.ai_behavior = "DEFENSIVE" ->
                IF enemy.current_hp * 10 < enemy.max_hp * 4   \* hp < max_hp * 0.4
                THEN "defend" ELSE "attack"
           [] enemy.ai_behavior = "TACTICAL" ->
                IF enemy.current_hp * 10 < enemy.max_hp * 3   \* hp < max_hp * 0.3
                THEN "defend"
                ELSE IF enemy.force_sensitive /\ enemy.force_points >= 20
                THEN "force_power"
                ELSE "attack"
           [] enemy.ai_behavior = "CALCULATED" -> "attack"
           [] OTHER -> "attack"

\* The actions the AI can return for this enemy, over all rolls
ai_decisions(enemy) ==
    { _enemy_ai_decision(enemy, f, c) :
        f \in {r <= 50 : r \in RollValues}, c \in {r <= 30 : r \in RollValues} }

\* CombatSystem._execute_enemy_action for the enemy at position i: one result
\* for each outcome of the random draws
_execute_enemy_action(w, i, action) ==
    LET enemy == w.cs.enemies[i] IN
    CASE action = "attack" ->
           LET damage == IF w.cs.vader_defended_this_turn
                         THEN FloorDiv(enemy.attack_damage, 2)
                         ELSE enemy.attack_damage
               td == DarthVader_take_damage(w.vader, damage)
           IN IF td.alive
              THEN LET w1 == [w EXCEPT !.vader = td.v,
                                       !.cs.total_damage_taken = @ + damage]
                   IN { IF hit THEN [w1 EXCEPT !.suit = take_suit_damage(@, sd)]
                               ELSE w1 :
                        hit \in {r <= 15 : r \in RollValues}, sd \in 2..5 }
              ELSE {[w EXCEPT !.vader = td.v,
                              !.cs.combat_active = FALSE,
                              !.cs.victory_type = "defeat"]}
      [] action = "defend" -> {[w EXCEPT !.cs.enemies[i].is_defending = TRUE]}
      [] action = "flee" -> {[w EXCEPT !.cs.enemies[i].is_alive = FALSE]}
      [] action = "cower" -> {w}
      [] action = "force_power" ->
           { [w EXCEPT !.vader = DarthVader_take_damage(@, force_damage).v,
                       !.cs.total_damage_taken = @ + force_damage] :
             force_damage \in 15..25 }
      [] OTHER -> {w}

\* The loop of enemy_turn over alive_enemies (the positions of the enemies
\* alive when enemy_turn was entered), from its k-th element on
RECURSIVE enemy_turn_loop(_, _, _)
enemy_turn_loop(w, alive_enemies, k) ==
    IF k > Len(alive_enemies) THEN {w}
    ELSE LET i == alive_enemies[k]
             enemy == w.cs.enemies[i]
         IN IF enemy.is_stunned
            THEN enemy_turn_loop([w EXCEPT !.cs.enemies[i].is_stunned = FALSE],
                                 alive_enemies, k + 1)
            ELSE UNION { UNION { enemy_turn_loop(w2, alive_enemies, k + 1) :
                                 w2 \in _execute_enemy_action(w, i, action) } :
                         action \in ai_decisions(enemy) }

RECURSIVE SelectAlive(_, _)
SelectAlive(enemies, k) ==
    IF k > Len(enemies) THEN <<>>
    ELSE IF enemies[k].is_alive THEN <<k>> \o SelectAlive(enemies, k + 1)
    ELSE SelectAlive(enemies, k + 1)

enemy_turn(w) ==
    enemy_turn_loop([w EXCEPT !.ret = NoArg], SelectAlive(w.cs.enemies, 1), 1)

\* Mutation: the intimidation check is missing
_check_victory_conditions_no_terror(cs) ==
    LET alive_enemies == {k \in 1..Len(cs.enemies) : cs.enemies[k].is_alive}
    IN IF alive_enemies = {}
       THEN [cs EXCEPT !.combat_active = FALSE,
                       !.victory_type = "total_victory"]
       ELSE cs

_check_victory_conditions(cs) ==
    LET alive_enemies == {k \in 1..Len(cs.enemies) : cs.enemies[k].is_alive}
        c1 == IF alive_enemies = {}
              THEN [cs EXCEPT !.combat_active = FALSE,
                              !.victory_type = "total_victory"]
              ELSE cs
        non_fled == {k \in alive_enemies :
                        ~cs.enemies[k].is_feared \/ cs.enemies[k].morale > 0}
    IN IF alive_enemies # {} /\ non_fled = {}
       THEN [c1 EXCEPT !.combat_active = FALSE,
                       !.victory_type = "intimidation_victory"]
       ELSE c1

end_turn(w) ==
    LET rg == regenerate_force_points(w.vader, w.suit)
        cs1 == [w.cs EXCEPT !.vader_defended_this_turn = FALSE,
                            !.turn_number = @ + 1]
    IN [w EXCEPT !.vader = rg.v,
                 !.fps = update_cooldowns(w.fps),
                 !.cs = _check_victory_conditions(cs1),
                 !.ret = NoArg]

----------------------------------------------------------------------------
(* BossEnemy and BossFightSystem (src/src/combat/boss_fight.py)            *)
(* A boss world bw is the record [vader, suit, boss, bf, ret].             *)

\* BossPhase: the enum values
PHASE_1 == 1

PHASE_2 == 2

PHASE_3 == 3

FINAL == 4

\* None for an Optional[int] or Optional[BossPhase] field
NoValue == 0

BossAction(id, damage, stun_chance, force_drain, suit_damage, requires_phase, requires_hp_below, cooldown_turns) ==
    [ id |-> id, damage |-> damage, stun_chance |-> stun_chance,
      force_drain |-> force_drain, suit_damage |-> suit_damage,
      requires_phase |-> requires_phase,
      requires_hp_below |-> requires_hp_below,
      cooldown_turns |-> cooldown_turns, current_cooldown |-> 0 ]

BossTrigger(id, hp_threshold, turn_number, phase) ==
    [ id |-> id, hp_threshold |-> hp_threshold, turn_number |-> turn_number,
      phase |-> phase, triggered |-> FALSE ]

\* phase_transitions is the sequence of the dict's items in insertion order
BossEnemy(id, max_hp, current_hp, base_damage, defense, current_phase, phase_transitions, special_actions, force_resistance, triggers) ==
    [ present |-> TRUE, id |-> id, max_hp |-> max_hp, current_hp |-> current_hp,
      base_damage |-> base_damage, defense |-> defense,
      current_phase |-> current_phase,
      phase_transitions |-> phase_transitions,
      special_actions |-> special_actions,
      force_resistance |-> force_resistance, adaptive |-> TRUE,
      triggers |-> triggers,
      turns_survived |-> 0, damage_taken_total |-> 0,
      times_vader_used_force |-> 0, times_vader_attacked |-> 0 ]

\* The first item of phase_transitions, in dict order, that is in hits; the
\* boss's phase when hits is empty
first_phase(b, hits) ==
    IF hits = {} THEN b.current_phase
    ELSE b.phase_transitions[CHOOSE k \in hits : \A m \in hits : k <= m].phase

\* Mutation: the loop of take_damage does not compare the ordinals
take_damage_phase_unordered(b, hp) ==
    first_phase(b, {k \in 1..Len(b.phase_transitions) :
                       hp * 100 <= b.phase_transitions[k].threshold * b.max_hp})

\* The loop of BossEnemy.take_damage over phase_transitions, with current_hp
\* already lowered to hp: the phase it leaves in current_phase.  The float
\* test (current_hp / max_hp) * 100 <= threshold is current_hp * 100 <=
\* threshold * max_hp for the HP values and thresholds of the bosses here.
take_damage_phase(b, hp) ==
    first_phase(b, {k \in 1..Len(b.phase_transitions) :
                       /\ hp * 100 <= b.phase_transitions[k].threshold * b.max_hp
                       /\ b.current_phase < b.phase_transitions[k].phase})

\* BossEnemy.take_damage: returns (boss, actual_damage, killed)
BossEnemy_take_damage(b, amount) ==
    LET actual_damage == Max(1, amount - b.defense)
        hp == b.current_hp - actual_damage
        b1 == [b EXCEPT !.damage_taken_total = @ + actual_damage]
    IN IF hp <= 0
       THEN [b |-> [b1 EXCEPT !.current_hp = 0],
             actual_damage |-> actual_damage, killed |-> TRUE]
       ELSE [b |-> [b1 EXCEPT !.current_hp = hp,
                              !.current_phase = take_damage_phase(b, hp)],
             actual_damage |-> actual_damage, killed |-> FALSE]

\* BossEnemy.get_hp_percentage: int((current_hp / max_hp) * 100).  The float
\* product is the exact quotient rounded down except for 87 / 150, where
\* 0.58 * 100 is 57.99999999999999
get_hp_percentage(b) ==
    IF b.current_hp = 87 /\ b.max_hp = 150 THEN 57
    ELSE FloorDiv(b.current_hp * 100, b.max_hp)

\* BossFightSystem.__init__: current_boss is None
NoBoss == [present |-> FALSE]

BossFightSystem ==
    [turn_number |-> 0, scripted_loss |-> FALSE, scripted_loss_triggered |-> FALSE]

start_boss_fight(bw, new_boss, scripted_loss) ==
    [bw EXCEPT !.boss = new_boss,
               !.bf = [turn_number |-> 0, scripted_loss |-> scripted_loss,
                       scripted_loss_triggered |-> FALSE],
               !.ret = [scripted_loss |-> scripted_loss]]

\* Mutation: a trigger already marked triggered is not skipped
check_triggers_again(bw) ==
    IF ~bw.boss.present THEN [bw EXCEPT !.ret = [trigger |-> 0]]
    ELSE
    LET Fires(t) ==
            \/ /\ t.hp_threshold # NoValue
               /\ get_hp_percentage(bw.boss) <= t.hp_threshold
            \/ /\ t.turn_number # NoValue
               /\ bw.bf.turn_number = t.turn_number
            \/ /\ t.phase # NoValue
               /\ bw.boss.current_phase = t.phase
        hits == {k \in 1..Len(bw.boss.triggers) : Fires(bw.boss.triggers[k])}
    IN IF hits = {} THEN [bw EXCEPT !.ret = [trigger |-> 0]]
       ELSE LET k == CHOOSE j \in hits : \A m \in hits : j <= m
            IN [bw EXCEPT !.boss.triggers[k].triggered = TRUE,
                          !.ret = [trigger |-> k]]

\* BossFightSystem.check_triggers: ret.trigger is the position of the trigger
\* returned, 0 for None
check_triggers(bw) ==
    IF ~bw.boss.present THEN [bw EXCEPT !.ret = [trigger |-> 0]]
    ELSE
    LET Fires(t) ==
            \/ /\ t.hp_threshold # NoValue
               /\ get_hp_percentage(bw.boss) <= t.hp_threshold
            \/ /\ t.turn_number # NoValue
               /\ bw.bf.turn_number = t.turn_number
            \/ /\ t.phase # NoValue
               /\ bw.boss.current_phase = t.phase
        hits == {k \in 1..Len(bw.boss.triggers) :
                    ~bw.boss.triggers[k].triggered /\ Fires(bw.boss.triggers[k])}
    IN IF hits = {} THEN [bw EXCEPT !.ret = [trigger |-> 0]]
       ELSE LET k == CHOOSE j \in hits : \A m \in hits : j <= m
            IN [bw EXCEPT !.boss.triggers[k].triggered = TRUE,
                          !.ret = [trigger |-> k]]

\* BossFightSystem.execute_boss_action on the special action at position k:
\* one result for each outcome of the stun roll
execute_boss_action(bw, k) ==
    LET action == bw.boss.special_actions[k] IN
    IF action.current_cooldown > 0
    THEN {[bw EXCEPT !.ret = [success |-> FALSE]]}
    ELSE
    LET td == IF action.damage > 0
              THEN DarthVader_take_damage(bw.vader, action.damage)
              ELSE [v |-> bw.vader, alive |-> TRUE]
        stuns == IF action.stun_chance > 0
                 THEN {r <= action.stun_chance : r \in RollValues}
                 ELSE {FALSE}
        drained == Min(action.force_drain, td.v.current_force_points)
        v2 == IF action.force_drain > 0
              THEN [td.v EXCEPT !.current_force_points = @ - drained]
              ELSE td.v
        s2 == IF action.suit_damage > 0
              THEN take_suit_damage(bw.suit, action.suit_damage)
              ELSE bw.suit
    IN { [bw EXCEPT !.vader = v2, !.suit = s2,
                    !.boss.special_actions[k].current_cooldown =
                        action.cooldown_turns,
                    !.ret = [success |-> TRUE, damage |-> action.damage,
                             vader_defeated |-> ~td.alive,
                             vader_stunned |-> stunned]] :
         stunned \in stuns }

\* Mutation: the cooldown filter is missing
boss_choose_action_any_cooldown(bw) ==
    IF ~bw.boss.present THEN {0}
    ELSE
    LET hp_percent == get_hp_percentage(bw.boss)
        available_actions ==
            {k \in 1..Len(bw.boss.special_actions) :
                LET action == bw.boss.special_actions[k] IN
                /\ \/ action.requires_phase = NoValue
                   \/ action.requires_phase = bw.boss.current_phase
                /\ \/ action.requires_hp_below = NoValue
                   \/ hp_percent < action.requires_hp_below}
    IN IF available_actions = {} THEN {0} ELSE available_actions

\* BossFightSystem.boss_choose_action: the positions of the special actions
\* random.choice can return; {0} when the method returns None
boss_choose_action(bw) ==
    IF ~bw.boss.present THEN {0}
    ELSE
    LET hp_percent == get_hp_percentage(bw.boss)
        available_actions ==
            {k \in 1..Len(bw.boss.special_actions) :
                LET action == bw.boss.special_actions[k] IN
                /\ action.current_cooldown = 0
                /\ \/ action.requires_phase = NoValue
                   \/ action.requires_phase = bw.boss.current_phase
                /\ \/ action.requires_hp_below = NoValue
                   \/ hp_percent < action.requires_hp_below}
        force_drain_actions ==
            {k \in available_actions : bw.boss.special_actions[k].force_drain > 0}
    IN IF available_actions = {} THEN {0}
       ELSE IF /\ bw.boss.adaptive
               /\ bw.boss.times_vader_used_force > bw.boss.times_vader_attacked
               /\ force_drain_actions # {}
       THEN force_drain_actions
       ELSE available_actions

_handle_boss_death(bw) ==
    IF ~bw.boss.present THEN bw
    ELSE LET h1 == Min(bw.vader.max_health,
                       bw.vader.current_health + bw.boss.max_hp)
             h2 == IF h1 < bw.vader.max_health THEN bw.vader.max_health ELSE h1
         IN [bw EXCEPT !.vader.current_health = h2]

\* The phases a call entered, in order: it found the boss in phase p0, its
\* take_damage left p1 and the call left p2
PhasesBetween(p0, p1, p2) ==
    (IF p1 # p0 THEN <<p1>> ELSE <<>>) \o (IF p2 # p1 THEN <<p2>> ELSE <<>>)

\* Mutation: vader_attacks_boss has no loop of its own
attack_phase_none(b) == b.current_phase

\* The loop of vader_attacks_boss over phase_transitions: the phase it
\* leaves in current_phase (old_phase is the phase after take_damage)
attack_phase(b) ==
    LET old_phase == b.current_phase
        hp_percent == get_hp_percentage(b)
    IN first_phase(b, {k \in 1..Len(b.phase_transitions) :
                          /\ hp_percent <= b.phase_transitions[k].threshold
                          /\ old_phase < b.phase_transitions[k].phase})

\* BossFightSystem.vader_attacks_boss: one result for each outcome of the
\* resistance roll
vader_attacks_boss(bw, damage) ==
    IF ~bw.boss.present
    THEN {[bw EXCEPT !.ret = [success |-> FALSE, entered |-> <<>>]]}
    ELSE
    { LET b0 == [bw.boss EXCEPT !.times_vader_attacked = @ + 1]
          td == BossEnemy_take_damage(
                    b0, IF resisted THEN FloorDiv(damage, 2) ELSE damage)
          w1 == [bw EXCEPT !.boss = td.b]
          w2 == IF td.killed THEN _handle_boss_death(w1) ELSE w1
          phase == attack_phase(w2.boss)
          changed == phase # w2.boss.current_phase
      IN [w2 EXCEPT
            !.boss.current_phase = phase,
            !.ret = [success |-> TRUE, damage |-> td.actual_damage,
                     killed |-> td.killed, phase_changed |-> changed,
                     new_phase |-> IF changed THEN phase ELSE NoValue,
                     entered |-> PhasesBetween(bw.boss.current_phase,
                                               td.b.current_phase, phase)]] :
      resisted \in {r <= bw.boss.force_resistance : r \in RollValues} }

vader_uses_force_on_boss(bw, damage) ==
    IF ~bw.boss.present
    THEN {[bw EXCEPT !.ret = [success |-> FALSE, entered |-> <<>>]]}
    ELSE vader_attacks_boss(
             [bw EXCEPT !.boss.times_vader_used_force = @ + 1], damage)

\* Mutation: the scripted loss waits for the turn after the eighth
check_scripted_loss_late(bw) ==
    IF ~bw.bf.scripted_loss \/ bw.bf.scripted_loss_triggered
    THEN [bw EXCEPT !.ret = [lost |-> FALSE]]
    ELSE IF \/ bw.bf.turn_number > 8
            \/ bw.vader.current_health * 10 < bw.vader.max_health * 3
    THEN [bw EXCEPT !.bf.scripted_loss_triggered = TRUE, !.ret = [lost |-> TRUE]]
    ELSE [bw EXCEPT !.ret = [lost |-> FALSE]]

\* BossFightSystem.check_scripted_loss: ret.lost is the value returned.
\* current_health < max_health * 0.3 is current_health * 10 < max_health * 3
\* for the integer healths here
check_scripted_loss(bw) ==
    IF ~bw.bf.scripted_loss \/ bw.bf.scripted_loss_triggered
    THEN [bw EXCEPT !.ret = [lost |-> FALSE]]
    ELSE IF \/ bw.bf.turn_number >= 8
            \/ bw.vader.current_health * 10 < bw.vader.max_health * 3
    THEN [bw EXCEPT !.bf.scripted_loss_triggered = TRUE, !.ret = [lost |-> TRUE]]
    ELSE [bw EXCEPT !.ret = [lost |-> FALSE]]

BossFightSystem_update_cooldowns(bw) ==
    IF ~bw.boss.present THEN bw
    ELSE [bw EXCEPT !.boss.special_actions =
             [k \in 1..Len(bw.boss.special_actions) |->
                 LET action == bw.boss.special_actions[k] IN
                 IF action.current_cooldown > 0
                 THEN [action EXCEPT !.current_cooldown = @ - 1]
                 ELSE action]]

BossFightSystem_end_turn(bw) ==
    LET w1 == BossFightSystem_update_cooldowns(
                  [bw EXCEPT !.bf.turn_number = @ + 1])
    IN IF w1.boss.present
       THEN [w1 EXCEPT !.boss.turns_survived = @ + 1, !.ret = NoArg]
       ELSE [w1 EXCEPT !.ret = NoArg]

create_infila_first_duel ==
    BossEnemy("infila_first", 120, 120, 30, 15, PHASE_1,
              << [phase |-> PHASE_2, threshold |-> 60] >>,
              << BossAction("form3_defense", 0, 0, 0, 0, NoValue, NoValue, 3),
                 BossAction("force_push_counter", 25, 0, 0, 0, NoValue,
                            NoValue, 2),
                 BossAction("precision_strike", 30, 0, 0, 5, NoValue, 70, 2),
                 BossAction("mountain_wind", 20, 0, 0, 0, NoValue, NoValue, 4) >>,
              60,
              << BossTrigger("opening_dialogue", NoValue, 1, NoValue),
                 BossTrigger("leg_damage_warning", 50, NoValue, NoValue),
                 BossTrigger("scripted_defeat", NoValue, 8, NoValue) >>)

create_infila_final_duel(water_tank_destroyed) ==
    LET phase1_actions ==
            << BossAction("soresu_mastery", 0, 0, 0, 0, PHASE_1, NoValue, 3),
               BossAction("counter_slash", 35, 0, 0, 0, PHASE_1, NoValue, 2) >>
        phase2_actions ==
            IF ~water_tank_destroyed
            THEN << BossAction("jedi_fury", 45, 0, 20, 0, PHASE_2, 50, 3),
                    BossAction("form5_aggression", 40, 30, 0, 0, PHASE_2,
                               NoValue, 2),
                    BossAction("final_stand", 60, 0, 0, 10, FINAL, 20, 5) >>
            ELSE << BossAction("distracted_attack", 25, 0, 0, 0, PHASE_2,
                               NoValue, 1),
                    BossAction("desperate_defense", 15, 0, 0, 0, PHASE_2,
                               NoValue, 1) >>
        base_hp == IF water_tank_destroyed THEN 120 ELSE 150
        base_defense == IF water_tank_destroyed THEN 12 ELSE 18
    IN BossEnemy("infila_final", base_hp, base_hp, 35, base_defense, PHASE_1,
                 << [phase |-> PHASE_2, threshold |-> 50],
                    [phase |-> FINAL, threshold |-> 20] >>,
                 phase1_actions \o phase2_actions,
                 70,
                 << BossTrigger("duel_start", NoValue, 1, NoValue),
                    BossTrigger("phase2_transition", 50, NoValue, PHASE_2),
                    BossTrigger("near_death", 15, NoValue, NoValue) >>)

----------------------------------------------------------------------------
(* The combat session: a driver (main.py run_regular_combat, demo_combat.py) *)
(* calls the methods of one CombatSystem in any order.                       *)

\* The encounters the driver starts: lists of create_enemy templates.
\* "SCENARIO" is the opponent of the specification's total-victory scenario
\* (10 HP, hit for 50 by the lightsaber).
scenario_enemy(id) ==
    Enemy(id, 10, 10, 10, 0, "AGGRESSIVE", FALSE, 0, 0, 8, 0, 10)

make_enemies(types) ==
    [k \in 1..Len(types) |->
        IF types[k] = "SCENARIO" THEN scenario_enemy(k)
        ELSE create_enemy(types[k], k)]

\* The sessions the driver plays: the health and rage with which the
\* character enters the encounter (both persist between encounters), the
\* powers learned through learn_power before it, and the list of create_enemy
\* templates of the encounter. Level and experience persist as well: the
\* character meets the Jedi at level 2 and the troopers 30 experience short of
\* it.
Sessions ==
    { [vader |-> DarthVader(24, 30, 90), learned |-> {"force_grip"},
       types |-> <<"SCENARIO">>],
      [vader |-> [add_experience(DarthVader(150, 100, 60), 100)
                     EXCEPT !.current_health = 24, !.current_force_points = 100],
       learned |-> {}, types |-> <<"JEDI_SURVIVOR">>],
      [vader |-> add_experience(DarthVader(24, 100, 60), 70), learned |-> {},
       types |-> <<"STORMTROOPER", "STORMTROOPER", "STORMTROOPER">>] }

\* The boss fights the driver plays (demo_story.py run_boss_fight): the
\* final duel, and the first duel, which is a scripted loss
BossSessions ==
    { [vader |-> DarthVader(150, 15, 60), learned |-> {},
       boss |-> create_infila_final_duel(FALSE), scripted_loss |-> FALSE],
      [vader |-> DarthVader(60, 100, 60), learned |-> {},
       boss |-> create_infila_first_duel, scripted_loss |-> TRUE] }

\* Damage amounts passed to vader_attacks_boss: the
\* lightsaber strike of the drivers (40 + strength * 2) and a strike that
\* takes a fresh boss below both thresholds of the final duel
BossStrikes == {40 + (strength * 2), 140}

\* (damage, force point cost) of the drivers' Force Push, Force Choke and
\* Force Repulse
BossForceAttacks == {<<15, 10>>, <<35, 20>>, <<40, 25>>}

\* The objects of the current state; ret is filled in by the method called
World ==
    [vader |-> vader, suit |-> suit, fps |-> force_powers, cs |-> combat_state,
     ret |-> NoArg]

BossWorld ==
    [vader |-> vader, suit |-> suit, boss |-> boss, bf |-> boss_fight,
     ret |-> NoArg]

BossApply(bw, entered) ==
    /\ calls < MaxCalls
    /\ phases_entered' = phases_entered \o entered
    /\ UNCHANGED used_turn
    /\ calls' = IF [bw EXCEPT !.ret = NoArg] = BossWorld THEN calls ELSE calls + 1
    /\ vader' = bw.vader
    /\ suit' = bw.suit
    /\ boss' = bw.boss
    /\ boss_fight' = bw.bf
    /\ UNCHANGED <<force_powers, combat_state>>

ApplyUse(w, used) ==
    /\ calls < MaxCalls
    /\ used_turn' = used
    /\ UNCHANGED phases_entered
    /\ calls' = IF [w EXCEPT !.ret = NoArg] = World THEN calls ELSE calls + 1
    /\ vader' = w.vader
    /\ suit' = w.suit
    /\ force_powers' = w.fps
    /\ combat_state' = w.cs
    /\ UNCHANGED <<boss, boss_fight>>

Apply(w) == ApplyUse(w, used_turn)

\* Target ids a driver passes: the enemies' ids and 0, which is None and is
\* the id of no enemy
TargetIds == 0..Len(combat_state.enemies)

Init ==
    /\ \E x \in Sessions \cup BossSessions :
           /\ vader = x.vader
           /\ force_powers = ForcePowerSystem(x.learned)
    /\ suit = SuitSystem
    /\ combat_state = NoCombat
    /\ boss = NoBoss
    /\ boss_fight = BossFightSystem
    /\ calls = 0
    /\ used_turn = [p \in Powers |-> 0]
    /\ phases_entered = <<>>

StartCombat ==
    /\ ~combat_state.started
    /\ ~boss.present
    /\ \E x \in Sessions :
           /\ x.vader = vader
           /\ ForcePowerSystem(x.learned) = force_powers
           /\ Apply(start_combat(World, make_enemies(x.types)))

VaderAttack ==
    /\ combat_state.started
    /\ \E t \in TargetIds : Apply(vader_attack(World, t))

VaderUseForcePower ==
    /\ combat_state.started
    /\ \E p \in Powers \cup {UnknownPower}, t \in TargetIds :
         \E w \in vader_use_force_power(World, p, t) :
             ApplyUse(w, IF w.ret.success
                         THEN [used_turn EXCEPT ![p] = combat_state.turn_number]
                         ELSE used_turn)

VaderDefend ==
    /\ combat_state.started
    /\ Apply(vader_defend(World))

VaderMeditate ==
    /\ combat_state.started
    /\ Apply(vader_meditate(World))

VaderRetreat ==
    /\ combat_state.started
    /\ \E w \in vader_retreat(World) : Apply(w)

ExecuteEnemy ==
    /\ combat_state.started
    /\ \E t \in TargetIds, m \in ExecuteMethods : Apply(execute_enemy(World, t, m))

EnemyTurn ==
    /\ combat_state.started
    /\ \E w \in enemy_turn(World) : Apply(w)

EndTurn ==
    /\ combat_state.started
    /\ Apply(end_turn(World))

StartBossFight ==
    /\ ~combat_state.started
    /\ ~boss.present
    /\ \E x \in BossSessions :
           /\ x.vader = vader
           /\ BossApply(start_boss_fight(BossWorld, x.boss, x.scripted_loss), <<>>)

CheckTriggers ==
    /\ boss.present
    /\ BossApply(check_triggers(BossWorld), <<>>)

CheckScriptedLoss ==
    /\ boss.present
    /\ BossApply(check_scripted_loss(BossWorld), <<>>)

\* Driver: lightsaber strike
VaderAttacksBoss ==
    /\ boss.present
    /\ \E damage \in BossStrikes :
         \E bw \in vader_attacks_boss(BossWorld, damage) :
             BossApply(bw, bw.ret.entered)

\* Driver: vader_uses_force_on_boss, then vader.spend_force_points
VaderUsesForceOnBoss ==
    /\ boss.present
    /\ \E f \in BossForceAttacks :
         \E bw \in vader_uses_force_on_boss(BossWorld, f[1]) :
             BossApply([bw EXCEPT !.vader = spend_force_points(@, f[2]).v],
                       bw.ret.entered)

\* Driver: vader.restore_force_points(30)
BossFightMeditate ==
    /\ boss.present
    /\ BossApply([BossWorld EXCEPT !.vader = restore_force_points(@, 30)], <<>>)

\* Driver: the boss's turn, a special action or the basic attack
BossTurn ==
    /\ boss.present
    /\ \E k \in boss_choose_action(BossWorld) :
           IF k # 0
           THEN \E bw \in execute_boss_action(BossWorld, k) : BossApply(bw, <<>>)
           ELSE BossApply([BossWorld EXCEPT !.vader =
                    DarthVader_take_damage(@, boss.base_damage).v], <<>>)

\* Driver: boss_system.end_turn(), then vader.regenerate_force_points(suit)
BossEndTurn ==
    /\ boss.present
    /\ LET bw == BossFightSystem_end_turn(BossWorld)
       IN BossApply([bw EXCEPT !.vader =
                        regenerate_force_points(bw.vader, bw.suit).v], <<>>)

Next ==
    \/ StartCombat
    \/ VaderAttack
    \/ VaderUseForcePower
    \/ VaderDefend
    \/ VaderMeditate
    \/ VaderRetreat
    \/ ExecuteEnemy
    \/ EnemyTurn
    \/ EndTurn
    \/ StartBossFight
    \/ CheckTriggers
    \/ CheckScriptedLoss
    \/ VaderAttacksBoss
    \/ VaderUsesForceOnBoss
    \/ BossFightMeditate
    \/ BossTurn
    \/ BossEndTurn

Spec == Init /\ [][Next]_vars

----------------------------------------------------------------------------
(* Properties *)

TerminalTypes == {"total_victory", "intimidation_victory", "retreat", "defeat"}

\* C1: within one combat session, once combat_active is false it never
\* becomes true again, and once victory_type is one of the terminal values no
\* later engine call changes it.
C1_SessionEndIsFinal ==
    [][ (combat_state.started /\ combat_state'.started) =>
          /\ (~combat_state.combat_active => ~combat_state'.combat_active)
          /\ (combat_state.victory_type \in TerminalTypes =>
                 combat_state'.victory_type = combat_state.victory_type) ]_vars

\* C2: whenever Vader's current_health is <= 0 when enemy_turn returns,
\* whichever opponent action dealt the damage, the session has ended with
\* combat_active = false and victory_type = defeat.
C2_LethalEnemyTurnEndsInDefeat ==
    [][ (EnemyTurn /\ vader'.current_health <= 0) =>
          /\ ~combat_state'.combat_active
          /\ combat_state'.victory_type = "defeat" ]_vars

\* C3: after every operation that changes Vader's health,
\* 0 <= current_health <= max_health.
C3_HealthInRange ==
    /\ 0 <= vader.current_health
    /\ vader.current_health <= vader.max_health

\* C4: after every operation that changes force points,
\* 0 <= current_force_points <= max_force_points; spend_force_points deducts
\* the amount iff current_force_points >= amount and otherwise changes nothing.
C4_ForcePointsInRange ==
    /\ 0 <= vader.current_force_points
    /\ vader.current_force_points <= vader.max_force_points
    /\ \A amount \in 0..MaxAmount :
           LET r == spend_force_points(vader, amount)
           IN IF vader.current_force_points >= amount
              THEN /\ r.ok
                   /\ r.v = [vader EXCEPT !.current_force_points = @ - amount]
              ELSE ~r.ok /\ r.v = vader

\* C4 witness: a boss action has drained more force points than Vader held
\* (he entered the fight with 15), leaving him at 0
C4_Witness ==
    /\ boss.present
    /\ vader.current_force_points = 0
    /\ \E k \in 1..Len(boss.special_actions) :
           /\ boss.special_actions[k].force_drain > 15
           /\ boss.special_actions[k].current_cooldown > 0

\* C5: a hit that brings health to <= 0 leaves health exactly 1 and reports
\* alive when rage > 80, and leaves health <= 0 and reports not alive when
\* rage <= 80; a hit that leaves health above 0 is applied in full.
C5_LethalHit ==
    \A amount \in 0..MaxAmount :
        LET r == DarthVader_take_damage(vader, amount)
            left == vader.current_health - amount
        IN IF left > 0
           THEN r.alive /\ r.v.current_health = left
           ELSE IF vader.rage > 80
           THEN r.alive /\ r.v.current_health = 1
           ELSE ~r.alive /\ r.v.current_health <= 0

\* C5 witness: Vader, with rage above 80, has survived a lethal weapon attack
\* at exactly 1 health
C5_Witness ==
    /\ combat_state.started
    /\ vader.rage > 80
    /\ vader.current_health = 1
    /\ combat_state.victory_type # "defeat"

\* C6: end_turn evaluates victory: no opponent alive gives total_victory;
\* else every living opponent feared with morale 0 gives intimidation_victory;
\* otherwise combat_active and victory_type stay as they were.  One opponent
\* at 10 HP that takes a 50-damage hit gives total_victory and
\* combat_active = false at the next end_turn.
C6_EndTurnVictory ==
    combat_state.started =>
        LET enemies == combat_state.enemies
            alive == {k \in 1..Len(enemies) : enemies[k].is_alive}
            after == end_turn(World).cs
        IN /\ IF alive = {}
              THEN after.victory_type = "total_victory" /\ ~after.combat_active
              ELSE IF \A k \in alive :
                          enemies[k].is_feared /\ enemies[k].morale = 0
              THEN /\ after.victory_type = "intimidation_victory"
                   /\ ~after.combat_active
              ELSE /\ after.victory_type = combat_state.victory_type
                   /\ after.combat_active = combat_state.combat_active
           /\ (Len(enemies) = 1 /\ enemies[1].is_alive
                                /\ enemies[1].current_hp = 10) =>
                  LET hit == vader_attack(World, enemies[1].id)
                  IN hit.ret.damage = 50 =>
                         /\ end_turn(hit).cs.victory_type = "total_victory"
                         /\ ~end_turn(hit).cs.combat_active

\* C6 witness: the single opponent of 10 HP has taken the 50-damage hit and
\* the end_turn after it has ended the session with a total victory
C6_Witness ==
    /\ Len(combat_state.enemies) = 1
    /\ combat_state.enemies[1].max_hp = 10
    /\ ~combat_state.enemies[1].is_alive
    /\ combat_state.total_damage_dealt = 50
    /\ combat_state.turn_number > 1
    /\ combat_state.victory_type = "total_victory"
    /\ ~combat_state.combat_active

\* C7: a power with cooldown_turns = c >= 1 used successfully in turn N is
\* rejected by every attempt in turns N..N+c-1 and accepted again, given the
\* force points, from turn N+c; no current_cooldown is ever negative.
C7_Cooldown ==
    /\ \A p \in Powers : force_powers.current_cooldown[p] >= 0
    /\ combat_state.started =>
         \A p \in Powers :
            LET c == _initialize_powers[p].cooldown_turns
                cost == _initialize_powers[p].force_point_cost
                N == used_turn[p]
            IN (c >= 1 /\ N # 0) =>
                 IF combat_state.turn_number < N + c
                 THEN \A fp \in 0..vader.max_force_points :
                          ~can_use_power(force_powers, p, fp).ok
                 ELSE \A fp \in cost..vader.max_force_points :
                          can_use_power(force_powers, p, fp).ok

\* C7 witness: Force Grip (cooldown 2) has been used, has waited out its
\* cooldown and has been used a second time
C7_Witness ==
    /\ force_powers.powers_used_count["force_grip"] = 2
    /\ used_turn["force_grip"] >= 3

\* C8: across any sequence of BossEnemy.take_damage, vader_attacks_boss and
\* vader_uses_force_on_boss calls in one boss encounter, the ordinal of
\* current_phase never decreases.
C8_PhaseNeverDecreases ==
    /\ [][ (boss.present /\ boss'.present) =>
              boss'.current_phase >= boss.current_phase ]_vars
    /\ [](boss.present =>
             \A amount \in 0..boss.max_hp :
                 BossEnemy_take_damage(boss, amount).b.current_phase
                     >= boss.current_phase)

\* C8 witness: the boss has passed through PHASE_2 into FINAL and is alive
C8_Witness ==
    /\ boss.present
    /\ boss.current_hp > 0
    /\ boss.current_phase = FINAL
    /\ phases_entered = <<PHASE_2, FINAL>>

\* C9: after a vader_attacks_boss call that leaves the boss alive, every
\* phase of phase_transitions whose threshold is at or above the boss's HP
\* percentage has an ordinal <= current_phase; and no phase is entered twice
\* in one encounter.
C9_ReachedPhasesEntered ==
    /\ \A i, j \in 1..Len(phases_entered) :
           i # j => phases_entered[i] # phases_entered[j]
    /\ boss.present =>
         \A damage \in BossStrikes \cup {f[1] : f \in BossForceAttacks} :
            \A bw \in vader_attacks_boss(BossWorld, damage) :
               bw.boss.current_hp > 0 =>
                  \A k \in 1..Len(bw.boss.phase_transitions) :
                     bw.boss.phase_transitions[k].threshold
                         >= get_hp_percentage(bw.boss)
                     => bw.boss.phase_transitions[k].phase
                            <= bw.boss.current_phase

\* C9 witness: a single vader_attacks_boss call has taken the boss from full
\* HP below both thresholds and has entered both phases
C9_Witness ==
    /\ boss.present
    /\ boss.current_hp > 0
    /\ boss.times_vader_attacked = 1
    /\ boss.damage_taken_total = boss.max_hp - boss.current_hp
    /\ get_hp_percentage(boss) <= 20
    /\ boss.current_phase = FINAL

\* C10: an opponent's id is in helpless_enemies iff the opponent is alive
\* and 0 < current_hp <= 0.25 * max_hp.
C10_HelplessListExact ==
    combat_state.started =>
        \A k \in 1..Len(combat_state.enemies) :
            InSeq(combat_state.enemies[k].id, combat_state.helpless_enemies)
                <=> /\ combat_state.enemies[k].is_alive
                    /\ is_helpless(combat_state.enemies[k])

\* The ids a caller can name that are no valid target: the id of no opponent
\* and the ids of the opponents that are dead
InvalidTargetIds ==
    { t \in 1..(Len(combat_state.enemies) + 1) :
        LET i == _get_enemy_by_id(combat_state, t)
        IN i = 0 \/ ~combat_state.enemies[i].is_alive }

\* The powers that hit the one opponent named by target_id
SingleTargetPowers ==
    { p \in Powers : /\ _initialize_powers[p].base_damage > 0
                     /\ ~_initialize_powers[p].area_effect }

\* C11: vader_attack, or vader_use_force_power with a single-target power,
\* naming a target id that is missing or already dead returns a failure
\* result and mutates no state (force points, cooldown, mastery, usage
\* counters, opponents' HP and damage totals are unchanged).
C11_InvalidTargetNoMutation ==
    combat_state.started =>
        \A t \in InvalidTargetIds :
            /\ LET w == vader_attack(World, t)
               IN ~w.ret.success /\ [w EXCEPT !.ret = NoArg] = World
            /\ \A p \in SingleTargetPowers :
                  \A w \in vader_use_force_power(World, p, t) :
                      ~w.ret.success /\ [w EXCEPT !.ret = NoArg] = World

\* Amounts of force points held: none, the current amount, all, and for every
\* power its cost and one point less
ForcePointCases(v) ==
    {0, v.current_force_points, v.max_force_points}
        \cup UNION { {_initialize_powers[p].force_point_cost - 1,
                      _initialize_powers[p].force_point_cost} : p \in Powers }

\* The reason can_use_power has to give: not learned, then on cooldown, then
\* too few force points
C12_Reason(fps, p, fp) ==
    IF p \notin fps.learned_powers THEN [kind |-> "not_learned"]
    ELSE IF fps.current_cooldown[p] > 0
    THEN [kind |-> "on_cooldown", turns |-> fps.current_cooldown[p]]
    ELSE IF fp < _initialize_powers[p].force_point_cost
    THEN [kind |-> "need_force_points",
          needed |-> _initialize_powers[p].force_point_cost, have |-> fp]
    ELSE [kind |-> "can_use"]

\* C12: vader_use_force_power on a power that is not learned, is on cooldown
\* or costs more than the force points held returns success = false with the
\* reason (turns remaining, or points needed and held) and changes no state;
\* the checks are made in the order not-learned, on-cooldown, insufficient
\* force points.
C12_RejectedPowerNoMutation ==
    /\ \A p \in Powers, fp \in ForcePointCases(vader) :
           can_use_power(force_powers, p, fp).reason
               = C12_Reason(force_powers, p, fp)
    /\ \A p \in Powers \ force_powers.learned_powers :
           can_use_power([force_powers EXCEPT !.current_cooldown[p] = 1], p, 0)
               .reason.kind = "not_learned"
    /\ combat_state.started =>
         \A p \in Powers \cup {UnknownPower}, t \in TargetIds :
            LET reason == C12_Reason(force_powers, p, vader.current_force_points)
            IN reason.kind # "can_use" =>
                 \A w \in vader_use_force_power(World, p, t) :
                    /\ ~w.ret.success
                    /\ w.ret.message = reason
                    /\ [w EXCEPT !.ret = NoArg] = World

\* C12 witness: in one state of a session a learned power is on cooldown, a
\* second learned power costs more than the force points held and a third
\* power is not learned
C12_Witness ==
    /\ combat_state.started
    /\ \E p \in force_powers.learned_powers : force_powers.current_cooldown[p] > 0
    /\ \E p \in force_powers.learned_powers :
          /\ force_powers.current_cooldown[p] = 0
          /\ vader.current_force_points < _initialize_powers[p].force_point_cost
    /\ force_powers.learned_powers # Powers

\* C13: execute_enemy on a target that does not exist, is not alive or is not
\* helpless (current_hp = 0 or current_hp > 0.25 * max_hp) returns
\* success = false and changes nothing.
C13_IllegalExecutionRejected ==
    combat_state.started =>
        \A t \in 0..(Len(combat_state.enemies) + 1), method \in ExecuteMethods :
            LET i == _get_enemy_by_id(combat_state, t)
                illegal ==
                    \/ i = 0
                    \/ ~combat_state.enemies[i].is_alive
                    \/ combat_state.enemies[i].current_hp = 0
                    \/ combat_state.enemies[i].current_hp * 4
                           > combat_state.enemies[i].max_hp
                w == execute_enemy(World, t, method)
            IN illegal => ~w.ret.success /\ [w EXCEPT !.ret = NoArg] = World

\* C13 witness: a session holds a dead opponent and a living opponent above a
\* quarter of its HP that has been wounded
C13_Witness ==
    /\ combat_state.started
    /\ \E k \in 1..Len(combat_state.enemies) :
          ~combat_state.enemies[k].is_alive
    /\ \E k \in 1..Len(combat_state.enemies) :
          /\ combat_state.enemies[k].is_alive
          /\ combat_state.enemies[k].current_hp < combat_state.enemies[k].max_hp
          /\ combat_state.enemies[k].current_hp * 4
                 > combat_state.enemies[k].max_hp

\* C14: executing a helpless opponent with method brutal leaves it dead
\* (current_hp = 0, not alive), raises Vader's darkness by 10 and lowers his
\* control by 5 (each clamped to 0..100), and lowers the morale of every other
\* living opponent by 50, clamped at 0; dead opponents are not changed.
C14_BrutalExecution ==
    combat_state.started =>
        \A i \in 1..Len(combat_state.enemies) :
            LET target == combat_state.enemies[i]
                w == execute_enemy(World, target.id, "brutal")
            IN (target.is_alive /\ is_helpless(target)) =>
                 /\ w.ret.success
                 /\ w.cs.enemies[i].current_hp = 0
                 /\ ~w.cs.enemies[i].is_alive
                 /\ w.vader.darkness = Min(100, vader.darkness + 10)
                 /\ w.vader.control = Max(0, vader.control - 5)
                 /\ \A k \in 1..Len(combat_state.enemies) \ {i} :
                       LET e == combat_state.enemies[k]
                       IN IF e.is_alive
                          THEN w.cs.enemies[k].morale = Max(0, e.morale - 50)
                          ELSE w.cs.enemies[k] = e

\* The opponents whose HP has been brought to 0
Killed(cs) == {k \in 1..Len(cs.enemies) : cs.enemies[k].current_hp = 0}

\* The force points after the deaths of the opponents at the positions in
\* dead, starting from fp: 5 for each, 10 for a force-sensitive one, clamped
KillBonus(v, fp, cs, dead) ==
    Min(v.max_force_points,
        fp + SumOver([k \in dead |-> IF cs.enemies[k].force_sensitive
                                     THEN 10 ELSE 5], dead))

\* All experience earned: level n is reached with 100 * (1 + ... + (n - 1))
TotalExperience(v) == v.experience + 50 * v.level * (v.level - 1)

\* C15: enemies_killed equals the number of opponents whose HP was brought to
\* 0 by a lightsaber attack, a Force power or a quick/choke/brutal execution;
\* each such death grants the force-point bonus (5, or 10 for a
\* force-sensitive opponent, clamped to the maximum), the experience and the
\* credits exactly once; an opponent that flees or is spared adds no kill and
\* grants no bonus.
C15_KillsAndRewards ==
    combat_state.started =>
      LET enemies == combat_state.enemies
          New(w) == Killed(w.cs) \ Killed(combat_state)
          Rewarded(w, spent) ==
              /\ w.cs.enemies_killed
                     = combat_state.enemies_killed + Cardinality(New(w))
              /\ w.suit.credits
                     = suit.credits
                         + SumOver([k \in New(w) |-> enemies[k].credits_drop],
                                   New(w))
              /\ TotalExperience(w.vader)
                     = TotalExperience(vader)
                         + SumOver([k \in New(w) |-> enemies[k].experience_value],
                                   New(w))
              /\ w.vader.level = vader.level =>
                     w.vader.current_force_points
                         = KillBonus(vader, vader.current_force_points - spent,
                                     combat_state, New(w))
      IN /\ combat_state.enemies_killed = Cardinality(Killed(combat_state))
         /\ \A t \in TargetIds : Rewarded(vader_attack(World, t), 0)
         /\ \A t \in TargetIds, method \in ExecuteMethods :
                LET w == execute_enemy(World, t, method)
                IN /\ Rewarded(w, 0)
                   /\ (w.ret.success /\ method = "spare") =>
                          /\ New(w) = {}
                          /\ w.vader = vader /\ w.suit = suit
         /\ \A p \in force_powers.learned_powers, t \in TargetIds :
                \A w \in vader_use_force_power(World, p, t) :
                    w.ret.success =>
                        Rewarded(w, _initialize_powers[p].force_point_cost)
         /\ \A w \in enemy_turn(World) :
                /\ New(w) = {}
                /\ w.cs.enemies_killed = combat_state.enemies_killed
                /\ w.vader.current_force_points = vader.current_force_points
                /\ w.suit.credits = suit.credits

\* C15 witness: one opponent has been killed and rewarded, another has left
\* the fight alive (fled or spared) and counts for nothing
C15_Witness ==
    /\ combat_state.started
    /\ combat_state.enemies_killed = 1
    /\ Cardinality(Killed(combat_state)) = 1
    /\ \E k \in 1..Len(combat_state.enemies) :
          /\ ~combat_state.enemies[k].is_alive
          /\ combat_state.enemies[k].current_hp > 0

\* C16: for every opponent in every reachable state 0 <= current_hp <= max_hp
\* and is_alive holds iff current_hp > 0; once an opponent's is_alive is false
\* no operation makes it true again.
C16_EnemyHpAndLife ==
    /\ [](combat_state.started =>
             \A k \in 1..Len(combat_state.enemies) :
                 LET e == combat_state.enemies[k]
                 IN /\ 0 <= e.current_hp /\ e.current_hp <= e.max_hp
                    /\ e.is_alive <=> e.current_hp > 0)
    /\ [][ (combat_state.started /\ combat_state'.started) =>
              \A k \in 1..Len(combat_state.enemies) :
                  ~combat_state.enemies[k].is_alive
                      => ~combat_state'.enemies[k].is_alive ]_vars

\* The amounts by which the opponent at position i lowers the character's
\* health with the given action in world w, over all random draws
DamageAmounts(w, i, action) ==
    { w.vader.current_health - w2.vader.current_health :
        w2 \in _execute_enemy_action(w, i, action) }

\* C17: after vader_defend every damage amount applied to the character
\* during this turn's enemy_turn, by any opponent action (weapon attack or
\* Force attack), is half, integer-floored, of what it would be without
\* defending; end_turn clears the flag, so damage in the following turn is not
\* halved unless vader_defend is called again.
C17_DefendHalvesAllDamage ==
    (combat_state.started /\ ~combat_state.vader_defended_this_turn
        /\ vader.rage <= 80) =>
      /\ ~end_turn(vader_defend(World)).cs.vader_defended_this_turn
      /\ \A i \in 1..Len(combat_state.enemies) :
            combat_state.enemies[i].is_alive =>
                \A action \in ai_decisions(combat_state.enemies[i]) :
                    /\ DamageAmounts(vader_defend(World), i, action)
                         = { FloorDiv(a, 2) : a \in DamageAmounts(World, i, action) }
                    /\ DamageAmounts(end_turn(vader_defend(World)), i, action)
                         = DamageAmounts(end_turn(World), i, action)

\* The amounts of damage dealt by a Force hit of the given incoming damage on
\* the opponent at position i, over the outcomes of the resistance roll
ForceHitDamages(i, damage) ==
    { x.damage : x \in _apply_force_damage(World, i, damage) }

\* The amounts of damage dealt by a hit of the given incoming damage on the boss
BossHitDamages(damage) ==
    { bw.ret.damage : bw \in vader_attacks_boss(BossWorld, damage) }
        \cup { bw.ret.damage : bw \in vader_uses_force_on_boss(BossWorld, damage) }

\* Incoming damage amounts: below the defense of every target (1), halved to
\* at most the defense (15, 21, and 35 on the final duel's boss), halved to
\* more than the defense, odd and even (35, 40, 78), and the heaviest strike
\* of the drivers (140)
HitAmounts == {1, 15, 21, 35, 40, 78, 140}

\* The opponents a Force hit can be resisted by
Resisting ==
    { i \in 1..Len(combat_state.enemies) :
        /\ combat_state.enemies[i].is_alive
        /\ combat_state.enemies[i].force_resistance > 0 }

EligibleActions(b) ==
    {k \in 1..Len(b.special_actions) :
        /\ b.special_actions[k].current_cooldown = 0
        /\ b.special_actions[k].requires_phase \in {NoValue, b.current_phase}
        /\ \/ b.special_actions[k].requires_hp_below = NoValue
           \/ get_hp_percentage(b) < b.special_actions[k].requires_hp_below}

\* The calls of vader_uses_force_on_boss, and the direct calls of
\* vader_attacks_boss: every call of either kind adds 1 to times_vader_attacked
ForceAttacks(b) == b.times_vader_used_force
PhysicalAttacks(b) == b.times_vader_attacked - b.times_vader_used_force

\* C19: in a boss encounter where the character has made more Force attacks
\* (vader_uses_force_on_boss calls) than physical attacks (direct
\* vader_attacks_boss calls) and the boss is adaptive, boss_choose_action
\* returns an action with force_drain > 0 whenever at least one eligible action
\* has force_drain > 0; in every other case it returns some eligible action.
C19_AdaptiveForceDrain ==
    boss.present =>
        LET eligible == EligibleActions(boss)
            draining == {k \in eligible : boss.special_actions[k].force_drain > 0}
            chosen == boss_choose_action(BossWorld)
        IN IF /\ boss.adaptive
              /\ ForceAttacks(boss) > PhysicalAttacks(boss)
              /\ draining # {}
           THEN chosen # {} /\ chosen \subseteq draining
           ELSE eligible # {} => (chosen # {} /\ chosen \subseteq eligible)

\* The boss world after n calls of end_turn
RECURSIVE EndTurns(_, _)
EndTurns(bw, n) ==
    IF n = 0 THEN bw ELSE EndTurns(BossFightSystem_end_turn(bw), n - 1)

\* C20: any action returned by boss_choose_action has current_cooldown = 0,
\* requires_phase unset or equal to the boss's current phase, and
\* requires_hp_below unset or strictly greater than the boss's HP percentage;
\* it returns no action exactly when no special action satisfies all three.
\* An action executed with cooldown_turns = c has its cooldown set to c, loses
\* 1 per end_turn without going below 0, and is not returned again until c
\* end_turn calls have passed.
C20_EligibleAndCooldown ==
    /\ [](boss.present =>
            LET actions == boss.special_actions
                chosen == boss_choose_action(BossWorld)
                Satisfies(k) ==
                    /\ actions[k].current_cooldown = 0
                    /\ \/ actions[k].requires_phase = NoValue
                       \/ actions[k].requires_phase = boss.current_phase
                    /\ \/ actions[k].requires_hp_below = NoValue
                       \/ boss.current_hp * 100
                              < actions[k].requires_hp_below * boss.max_hp
            IN /\ \A k \in chosen \ {0} : k \in DOMAIN actions /\ Satisfies(k)
               /\ (chosen = {0}) <=> (\A k \in DOMAIN actions : ~Satisfies(k))
               /\ chosen # {}
               /\ \A k \in DOMAIN actions : actions[k].current_cooldown >= 0
               /\ \A k \in chosen \ {0} :
                     \A bw \in execute_boss_action(BossWorld, k) :
                         LET c == actions[k].cooldown_turns
                             After(n) == EndTurns(bw, n)
                         IN /\ bw.ret.success
                            /\ \A n \in 0..c :
                                  After(n).boss.special_actions[k].current_cooldown
                                      = c - n
                            /\ \A n \in 0..(c - 1) :
                                  k \notin boss_choose_action(After(n)))
    /\ [][ (boss.present /\ boss'.present) =>
              \A k \in DOMAIN boss.special_actions :
                  LET cd == boss.special_actions[k].current_cooldown
                      cd2 == boss'.special_actions[k].current_cooldown
                  IN \/ cd2 = cd
                     \/ /\ boss_fight'.turn_number = boss_fight.turn_number + 1
                        /\ cd > 0 /\ cd2 = cd - 1
                     \/ /\ cd = 0
                        /\ k \in boss_choose_action(BossWorld)
                        /\ cd2 = boss.special_actions[k].cooldown_turns ]_vars

\* C20 witness: an action was executed and one end_turn has passed; it is
\* still on cooldown and another action is eligible
C20_Witness ==
    /\ boss.present
    /\ boss_fight.turn_number >= 1
    /\ \E k \in DOMAIN boss.special_actions :
          /\ boss.special_actions[k].cooldown_turns >= 2
          /\ boss.special_actions[k].current_cooldown
                 = boss.special_actions[k].cooldown_turns - 1
          /\ k \notin boss_choose_action(BossWorld)
    /\ boss_choose_action(BossWorld) # {0}

\* The triggers of the boss that are marked triggered
Triggered(b) == {k \in 1..Len(b.triggers) : b.triggers[k].triggered}

\* C21: each BossTrigger is returned by check_triggers at most once per
\* encounter, over any sequence of check_triggers, damage and end_turn calls:
\* a trigger already marked triggered is never returned again even when its
\* condition (HP threshold, turn number or phase) holds again, and each
\* check_triggers call returns at most one trigger.
C21_TriggersFireOnce ==
    /\ [](boss.present =>
            LET bw == check_triggers(BossWorld)
                k == bw.ret.trigger
            IN /\ k \in 0..Len(boss.triggers)
               /\ k \notin Triggered(boss)
               /\ Triggered(bw.boss) = Triggered(boss) \cup ({k} \ {0})
               /\ [bw EXCEPT !.ret = NoArg, !.boss.triggers = boss.triggers]
                     = BossWorld)
    /\ [][ (boss.present /\ boss'.present) =>
              /\ Triggered(boss) \subseteq Triggered(boss')
              /\ Cardinality(Triggered(boss') \ Triggered(boss)) <= 1 ]_vars

\* C21 witness: a turn-number trigger has been returned and its turn number
\* is still the current one; check_triggers does not return it again
C21_Witness ==
    /\ boss.present
    /\ \E k \in Triggered(boss) :
          /\ boss.triggers[k].turn_number # NoValue
          /\ boss.triggers[k].turn_number = boss_fight.turn_number
          /\ check_triggers(BossWorld).ret.trigger # k

----------------------------------------------------------------------------
(* The first duel played to its scripted end (demo_story.py run_boss_fight
   with scripted_loss): the turns go by until the loss is due *)

ScriptedApply(bw) ==
    /\ vader' = bw.vader
    /\ suit' = bw.suit
    /\ boss' = bw.boss
    /\ boss_fight' = bw.bf
    /\ UNCHANGED <<force_powers, combat_state, calls, used_turn, phases_entered>>

ScriptedInit ==
    /\ \E health \in {150, 60}, scripted_loss \in BOOLEAN :
          LET bw == start_boss_fight(
                        [vader |-> DarthVader(health, 100, 60), suit |-> SuitSystem,
                         boss |-> NoBoss, bf |-> BossFightSystem, ret |-> NoArg],
                        create_infila_first_duel, scripted_loss)
          IN /\ vader = bw.vader
             /\ suit = bw.suit
             /\ boss = bw.boss
             /\ boss_fight = bw.bf
    /\ force_powers = ForcePowerSystem({})
    /\ combat_state = NoCombat
    /\ calls = 0
    /\ used_turn = [p \in Powers |-> 0]
    /\ phases_entered = <<>>

\* Driver: boss_system.end_turn(), then vader.regenerate_force_points(suit)
ScriptedEndTurn ==
    /\ boss_fight.turn_number < MaxTurns
    /\ LET bw == BossFightSystem_end_turn(BossWorld)
       IN ScriptedApply([bw EXCEPT !.vader =
                            regenerate_force_points(bw.vader, bw.suit).v])

ScriptedCheck ==
    ScriptedApply(check_scripted_loss(BossWorld))

\* Driver: the boss's basic attack
ScriptedBossAttack ==
    /\ vader.current_health > 0
    /\ ScriptedApply([BossWorld EXCEPT !.vader =
                         DarthVader_take_damage(@, boss.base_damage).v])

\* Driver: lightsaber strike
ScriptedStrike ==
    /\ boss.current_hp > 0
    /\ \E bw \in vader_attacks_boss(BossWorld, 40 + (strength * 2)) :
           ScriptedApply(bw)

\* Driver: the duel is started again after its scripted end
ScriptedRestart ==
    /\ boss_fight.scripted_loss_triggered
    /\ ScriptedApply(start_boss_fight(BossWorld, create_infila_first_duel, TRUE))

ScriptedNext ==
    \/ ScriptedEndTurn
    \/ ScriptedCheck
    \/ ScriptedBossAttack
    \/ ScriptedStrike
    \/ ScriptedRestart

ScriptedSpec == ScriptedInit /\ [][ScriptedNext]_vars

\* C22: with scripted loss enabled, check_scripted_loss returns true exactly
\* once per boss fight: on the first call made when turn_number >= 8 or the
\* character's health is below 30% of the maximum, whatever the boss's HP, and
\* false on every call before and after; with scripted loss disabled it
\* returns false on every call. start_boss_fight re-arms the flag.
C22_ScriptedLossOnce ==
    /\ [](LET bw == check_scripted_loss(BossWorld)
              due == \/ boss_fight.turn_number >= 8
                     \/ 10 * vader.current_health < 3 * vader.max_health
          IN /\ bw.ret.lost <=> (/\ boss_fight.scripted_loss
                                 /\ ~boss_fight.scripted_loss_triggered
                                 /\ due)
             /\ bw.bf.scripted_loss_triggered
                    <=> (boss_fight.scripted_loss_triggered \/ bw.ret.lost)
             /\ ~check_scripted_loss(bw).ret.lost
             /\ [bw EXCEPT !.ret = NoArg, !.bf.scripted_loss_triggered =
                               boss_fight.scripted_loss_triggered] = BossWorld
             /\ \A hp \in {0, 1, boss.max_hp} :
                   check_scripted_loss([BossWorld EXCEPT !.boss.current_hp = hp]).ret
                       = bw.ret
             /\ \A scripted_loss \in BOOLEAN :
                   start_boss_fight(BossWorld, boss, scripted_loss).bf
                       = [turn_number |-> 0, scripted_loss |-> scripted_loss,
                          scripted_loss_triggered |-> FALSE])
    /\ [][ (boss_fight.scripted_loss_triggered
               /\ ~boss_fight'.scripted_loss_triggered)
             => (boss_fight'.turn_number = 0 /\ boss' = create_infila_first_duel)
         ]_vars

\* C22 witness: the eighth turn is reached with the character above 30% of
\* the maximum health, and the loss has been returned
C22_Witness ==
    /\ boss.present
    /\ boss_fight.scripted_loss
    /\ boss_fight.scripted_loss_triggered
    /\ boss_fight.turn_number = 8
    /\ 10 * vader.current_health >= 3 * vader.max_health
    /\ boss.current_hp < boss.max_hp

----------------------------------------------------------------------------
(* A fight in which the character, having learned Force Maelstrom, overuses
   it: the power comes off cooldown every five turns *)

ExhaustionApply(w) ==
    /\ vader' = w.vader
    /\ suit' = w.suit
    /\ force_powers' = w.fps
    /\ combat_state' = w.cs
    /\ UNCHANGED <<boss, boss_fight, calls, used_turn, phases_entered>>

ExhaustionInit ==
    /\ \E force_points \in {100, 70} :
          LET w == start_combat(
                       [vader |-> DarthVader(150, force_points, 60),
                        suit |-> SuitSystem,
                        fps |-> ForcePowerSystem({"force_maelstrom"}),
                        cs |-> NoCombat, ret |-> NoArg],
                       make_enemies(<<"JEDI_SURVIVOR">>))
          IN /\ vader = w.vader
             /\ suit = w.suit
             /\ force_powers = w.fps
             /\ combat_state = w.cs
    /\ boss = NoBoss
    /\ boss_fight = BossFightSystem
    /\ calls = 0
    /\ used_turn = [p \in Powers |-> 0]
    /\ phases_entered = <<>>

ExhaustionUsePower ==
    /\ force_powers.powers_used_count["force_maelstrom"] < MaxLegendary
    /\ \E w \in vader_use_force_power(World, "force_maelstrom", NoTarget) :
           w.ret.success /\ ExhaustionApply(w)

ExhaustionMeditate ==
    /\ vader.current_force_points < vader.max_force_points
    /\ ExhaustionApply(vader_meditate(World))

ExhaustionEndTurn ==
    /\ combat_state.turn_number < MaxCombatTurns
    /\ ExhaustionApply(end_turn(World))

\* The next fight: start_combat with the same opponents
ExhaustionStartCombat ==
    /\ force_powers.legendary_uses_this_combat > 0
    /\ ExhaustionApply(start_combat(World, make_enemies(<<"JEDI_SURVIVOR">>)))

ExhaustionNext ==
    \/ ExhaustionUsePower
    \/ ExhaustionMeditate
    \/ ExhaustionEndTurn
    \/ ExhaustionStartCombat

ExhaustionSpec == ExhaustionInit /\ [][ExhaustionNext]_vars

\* The force points regenerate_force_points adds at the base rate divided by
\* two once for exhaustion (when halved) and once for disrupted breathing
RegenAt(v, s, halved) ==
    LET r1 == IF halved THEN FloorDiv(force_point_regen_rate, 2)
                        ELSE force_point_regen_rate
        r2 == IF s.breathing_disrupted THEN FloorDiv(r1, 2) ELSE r1
    IN IF v.rage >= 80 THEN r2 + 5 ELSE r2

\* C23: when the number of legendary-tier powers used since start_combat (or
\* since the last exhaustion) reaches 3, the vader_use_force_power call that
\* made it so sets force_exhaustion_turns to 3 and resets the counter to 0;
\* each of the next three regenerate_force_points calls uses half the base
\* rate and lowers the exhaustion counter by one, the counter never goes below
\* 0, and start_combat resets the legendary-use counter to 0.
C23_LegendaryExhaustion ==
    LET uses == force_powers.legendary_uses_this_combat
        turns == vader.force_exhaustion_turns
        rg == regenerate_force_points(vader, suit)
    IN /\ uses \in 0..2
       /\ turns \in 0..3
       /\ \A p \in force_powers.learned_powers, t \in TargetIds :
             \A w \in vader_use_force_power(World, p, t) :
                 w.ret.success =>
                     IF _initialize_powers[p].tier # "LEGENDARY"
                     THEN /\ w.fps.legendary_uses_this_combat = uses
                          /\ w.vader.force_exhaustion_turns = turns
                     ELSE IF uses + 1 = 3
                     THEN /\ w.fps.legendary_uses_this_combat = 0
                          /\ w.vader.force_exhaustion_turns = 3
                     ELSE /\ w.fps.legendary_uses_this_combat = uses + 1
                          /\ w.vader.force_exhaustion_turns = turns
       /\ rg.v.force_exhaustion_turns = Max(0, turns - 1)
       /\ rg.v.current_force_points
              = Min(vader.max_force_points,
                    vader.current_force_points + RegenAt(vader, suit, turns > 0))
       /\ end_turn(World).vader = rg.v
       /\ start_combat(World, combat_state.enemies).fps.legendary_uses_this_combat = 0
       /\ start_combat(World, combat_state.enemies).vader = vader

\* C23 witness: the third Force Maelstrom exhausted the character and two of
\* the three halved regenerations have passed: 5 points each instead of 10
C23_Witness ==
    /\ force_powers.powers_used_count["force_maelstrom"] = 3
    /\ force_powers.legendary_uses_this_combat = 0
    /\ vader.force_exhaustion_turns = 1
    /\ combat_state.turn_number = 13
    /\ vader.current_force_points
           = vader.max_force_points - 50 + 2 * FloorDiv(force_point_regen_rate, 2)

\* The rolls at the two success chances and at the ends of the range
RetreatRolls == {1, 60, 61, 80, 81, 100}

\* Suit damage taken before the retreat: none, and the amounts that bring a
\* new suit to 50 and to 49 percent of integrity
SuitWear == {0, 350, 357}

\* C24: vader_retreat succeeds iff its roll in 1..100 is <= 60, or <= 80 when
\* suit integrity is below 50; on success the session ends with
\* combat_active = false and victory_type = retreat; on failure combat_active,
\* victory_type, the turn number, the character's health and force points and
\* every opponent are unchanged.
C24_Retreat ==
    combat_state.started =>
        \A wear \in SuitWear :
          LET w0 == [World EXCEPT !.suit = take_suit_damage(suit, wear)]
              outcomes == vader_retreat(w0)
          IN \A roll \in RetreatRolls :
              LET w == vader_retreat_roll(w0, roll)
              IN /\ w \in outcomes
                 /\ w.ret.success <=>
                        roll <= (IF w0.suit.integrity < 50 THEN 80 ELSE 60)
                 /\ w.ret.success =>
                        /\ ~w.cs.combat_active
                        /\ w.cs.victory_type = "retreat"
                 /\ ~w.ret.success =>
                        /\ w.cs = combat_state
                        /\ w.vader = vader
                        /\ w.fps = force_powers
                        /\ w.suit = w0.suit

\* C24 witness: a retreat has succeeded with opponents still alive
C24_Witness ==
    /\ combat_state.started
    /\ ~combat_state.combat_active
    /\ combat_state.victory_type = "retreat"
    /\ \E k \in 1..Len(combat_state.enemies) : combat_state.enemies[k].is_alive
    /\ suit.integrity >= 50
    /\ take_suit_damage(suit, 357).integrity < 50

----------------------------------------------------------------------------
(* One enemy turn of a single opponent, for every template of create_enemy
   and the conditions its fields can be in when the turn starts *)

AITypes ==
    {"STORMTROOPER", "REBEL_VETERAN", "JEDI_SURVIVOR", "BATTLE_DROID",
     "OFFICER"}

\* The opponent as the turn finds it. Morale falls in steps of 10 and fear
\* is set only below 20 (execute_enemy); is_stunned and force_points are
\* written by no method of the engine, the caller sets them.
AIEnemies ==
    { [create_enemy(type, 1) EXCEPT !.current_hp = hp, !.morale = morale,
                                    !.is_feared = feared, !.is_stunned = stunned,
                                    !.force_points = points] :
        type \in AITypes, hp \in {1, 7, 8, 9, 10, 11, 12, 15, 16, 23, 24, 25},
        morale \in {0, 10, 20, 100}, feared \in BOOLEAN, stunned \in BOOLEAN,
        points \in {0, 19, 20} }

AIInit ==
    /\ vader = DarthVader(150, 100, 60)
    /\ suit = SuitSystem
    /\ force_powers = ForcePowerSystem({})
    /\ \E e \in AIEnemies :
          /\ e.is_feared => e.morale < 20
          /\ combat_state = CombatState(<<e>>)
    /\ boss = NoBoss
    /\ boss_fight = BossFightSystem
    /\ calls = 0
    /\ used_turn = [p \in Powers |-> 0]
    /\ phases_entered = <<>>

AIEnemyTurn ==
    /\ calls = 0
    /\ calls' = 1
    /\ \E w \in enemy_turn(World) :
          /\ vader' = w.vader
          /\ suit' = w.suit
          /\ force_powers' = w.fps
          /\ combat_state' = w.cs
    /\ UNCHANGED <<boss, boss_fight, used_turn, phases_entered>>

AINext == AIEnemyTurn

AISpec == AIInit /\ [][AINext]_vars

\* C25: the opponent AI chooses in this priority order: flee is possible only
\* for an opponent with morale < 20 that is not force-sensitive, cower only
\* for a feared opponent, and flee is evaluated before cower; an opponent
\* that neither flees nor cowers attacks if Aggressive or Calculated, defends
\* iff current_hp < 40% of max_hp (else attacks) if Defensive, and if Tactical
\* defends when current_hp < 30% of max_hp, else uses a Force attack when
\* force-sensitive with at least 20 force points, else attacks. A stunned
\* opponent takes no action that turn and its stunned flag is cleared.
C25_OpponentAI ==
    /\ [](\A i \in 1..Len(combat_state.enemies) :
            LET e == combat_state.enemies[i]
                ByBehavior ==
                    IF e.ai_behavior \in {"AGGRESSIVE", "CALCULATED"} THEN "attack"
                    ELSE IF e.ai_behavior = "DEFENSIVE"
                    THEN IF 10 * e.current_hp < 4 * e.max_hp
                         THEN "defend" ELSE "attack"
                    ELSE IF 10 * e.current_hp < 3 * e.max_hp THEN "defend"
                    ELSE IF e.force_sensitive /\ e.force_points >= 20
                    THEN "force_power"
                    ELSE "attack"
            IN /\ \A flee_roll \in BOOLEAN, cower_roll \in BOOLEAN :
                    LET action == _enemy_ai_decision(e, flee_roll, cower_roll)
                        flees == e.morale < 20 /\ ~e.force_sensitive /\ flee_roll
                        cowers == ~flees /\ e.is_feared /\ cower_roll
                    IN /\ (action = "flee") <=> flees
                       /\ (action = "cower") <=> cowers
                       /\ (~flees /\ ~cowers) => action = ByBehavior
               /\ ai_decisions(e)
                      = { _enemy_ai_decision(e, f, c) : f \in BOOLEAN, c \in BOOLEAN }
               /\ (e.is_alive /\ e.is_stunned /\ Len(combat_state.enemies) = 1) =>
                      enemy_turn(World)
                          = {[World EXCEPT !.cs.enemies[i].is_stunned = FALSE]})
    /\ [][ \A i \in 1..Len(combat_state.enemies) :
              (combat_state.enemies[i].is_alive
                   /\ combat_state.enemies[i].is_stunned
                   /\ calls' = calls + 1) =>
                  /\ combat_state'.enemies[i]
                         = [combat_state.enemies[i] EXCEPT !.is_stunned = FALSE]
                  /\ vader' = vader /\ suit' = suit ]_vars

\* C25 witness: a feared opponent whose morale is below 20 has fled: fleeing
\* came before cowering
C25_Witness ==
    /\ calls = 1
    /\ Len(combat_state.enemies) = 1
    /\ combat_state.enemies[1].is_feared
    /\ combat_state.enemies[1].morale < 20
    /\ ~combat_state.enemies[1].is_alive
    /\ combat_state.enemies[1].current_hp > 0

\* The damage amounts of the drivers' strikes and Force attacks on a boss
BossDamages == BossStrikes \cup {f[1] : f \in BossForceAttacks}

\* C26: whenever a vader_attacks_boss or vader_uses_force_on_boss call changes
\* the boss's current_phase, the returned result has phase_changed = true and
\* new_phase equal to the phase entered; when the phase did not change,
\* phase_changed is false.
C26_PhaseChangeReported ==
    boss.present =>
        \A damage \in BossDamages :
            \A bw \in vader_attacks_boss(BossWorld, damage)
                         \cup vader_uses_force_on_boss(BossWorld, damage) :
                IF bw.boss.current_phase # boss.current_phase
                THEN /\ bw.ret.phase_changed
                     /\ bw.ret.new_phase = bw.boss.current_phase
                ELSE ~bw.ret.phase_changed

\* ---------------------------------------------------------------------------
\* The first duel with the caller's protocol of one check_triggers and one
\* end_turn per turn; calls = 1 when this turn's check_triggers has been made
\* ---------------------------------------------------------------------------

TriggerApply(bw, checked) ==
    /\ vader' = bw.vader
    /\ suit' = bw.suit
    /\ boss' = bw.boss
    /\ boss_fight' = bw.bf
    /\ calls' = checked
    /\ UNCHANGED <<force_powers, combat_state, used_turn, phases_entered>>

TriggerInit ==
    /\ LET bw == start_boss_fight(
                     [vader |-> DarthVader(150, 100, 60), suit |-> SuitSystem,
                      boss |-> NoBoss, bf |-> BossFightSystem, ret |-> NoArg],
                     create_infila_first_duel, FALSE)
       IN /\ vader = bw.vader
          /\ suit = bw.suit
          /\ boss = bw.boss
          /\ boss_fight = bw.bf
    /\ force_powers = ForcePowerSystem({})
    /\ combat_state = NoCombat
    /\ calls = 0
    /\ used_turn = [p \in Powers |-> 0]
    /\ phases_entered = <<>>

\* The caller's lightsaber strike, at any point of the turn
TriggerStrike ==
    /\ boss.current_hp > 0
    /\ \E damage \in BossStrikes :
         \E bw \in vader_attacks_boss(BossWorld, damage) :
             TriggerApply(bw, calls)

\* The caller's one check_triggers of the turn, while the boss lives
TriggerCheck ==
    /\ calls = 0
    /\ boss.current_hp > 0
    /\ TriggerApply(check_triggers(BossWorld), 1)

\* The caller's one end_turn of the turn, after the check
TriggerEndTurn ==
    /\ calls = 1
    /\ boss.current_hp > 0
    /\ boss_fight.turn_number < MaxTurns
    /\ TriggerApply(BossFightSystem_end_turn(BossWorld), 0)

TriggerNext ==
    \/ TriggerStrike
    \/ TriggerCheck
    \/ TriggerEndTurn

\* The caller keeps playing turns: the check and the end of the turn are
\* made whenever they are due
TriggerSpec ==
    /\ TriggerInit
    /\ [][TriggerNext]_vars
    /\ WF_vars(TriggerCheck)
    /\ WF_vars(TriggerEndTurn)

\* Positions of the first duel's triggers that have a turn_number condition
TurnTriggers ==
    {k \in 1..Len(create_infila_first_duel.triggers) :
        create_infila_first_duel.triggers[k].turn_number # NoValue}

\* C27: with one check_triggers and one end_turn per turn, every trigger with
\* a turn_number condition is eventually returned (marked triggered) once the
\* fight reaches that turn, also when an earlier untriggered trigger has its
\* condition become true on the same turn. turn_number only grows and the
\* condition is an equality, so the trigger is returned by that turn's check
\* or never: it has been returned whenever the fight is past its turn
C27_TurnTriggerReturned ==
    \A k \in TurnTriggers :
        LET turn == create_infila_first_duel.triggers[k].turn_number
        IN boss_fight.turn_number > turn => boss.triggers[k].triggered

\* ---------------------------------------------------------------------------
\* Kill credit
\* ---------------------------------------------------------------------------

\* Method values a caller may pass to execute_enemy: the four the code knows
\* and one it does not
AnyMethods == ExecuteMethods \cup {"maim"}

\* Number of opponents of a combat with current_hp = 0
Dead(cs) == Cardinality({k \in 1..Len(cs.enemies) : cs.enemies[k].current_hp = 0})

\* C28: for any method value passed to execute_enemy, kill credit is never
\* given for an opponent that is still alive: enemies_killed is at most the
\* number of opponents with current_hp = 0, before and after the call, and a
\* call that returns success leaves its target not alive
C28_KillCreditOnlyForDead ==
    combat_state.started =>
        /\ combat_state.enemies_killed <= Dead(combat_state)
        /\ \A target_id \in TargetIds, method \in AnyMethods :
              LET w == execute_enemy(World, target_id, method)
                  i == _get_enemy_by_id(combat_state, target_id)
              IN /\ w.ret.success => ~w.cs.enemies[i].is_alive
                 /\ w.cs.enemies_killed <= Dead(w.cs)

\* ---------------------------------------------------------------------------
\* enemy_turn after a defeat
\* ---------------------------------------------------------------------------

\* The points of the loop of enemy_turn at which an opponent's action has just
\* set victory_type to "defeat": the world at that point and the position in
\* alive_enemies of the opponent that comes next
RECURSIVE DefeatPoints(_, _, _)
DefeatPoints(w, alive_enemies, k) ==
    IF k > Len(alive_enemies) THEN {}
    ELSE LET i == alive_enemies[k]
             enemy == w.cs.enemies[i]
         IN IF enemy.is_stunned
            THEN DefeatPoints([w EXCEPT !.cs.enemies[i].is_stunned = FALSE],
                              alive_enemies, k + 1)
            ELSE UNION { UNION { IF w2.cs.victory_type = "defeat"
                                    /\ w.cs.victory_type # "defeat"
                                 THEN {<<w2, k + 1>>}
                                 ELSE DefeatPoints(w2, alive_enemies, k + 1) :
                                 w2 \in _execute_enemy_action(w, i, action) } :
                         action \in ai_decisions(enemy) }

\* C29: once victory_type = "defeat" has been set during an enemy_turn, the
\* opponents that come later in that enemy_turn change neither Vader's
\* health, nor the suit, nor total_damage_taken
C29_NothingAfterDefeat ==
    combat_state.started =>
        LET alive_enemies == SelectAlive(combat_state.enemies, 1)
        IN \A p \in DefeatPoints([World EXCEPT !.ret = NoArg], alive_enemies, 1) :
              \A w \in enemy_turn_loop(p[1], alive_enemies, p[2]) :
                  /\ w.vader.current_health = p[1].vader.current_health
                  /\ w.suit = p[1].suit
                  /\ w.cs.total_damage_taken = p[1].cs.total_damage_taken

\* ---------------------------------------------------------------------------
\* A combat played in the caller's cycle vader_attack, enemy_turn, end_turn;
\* calls is the position in the cycle: 0 before the attack, 1 before
\* enemy_turn, 2 before end_turn
\* ---------------------------------------------------------------------------

\* Opponent lists: the demo's patrol, a Jedi survivor, and an opponent whose
\* defense exceeds every lightsaber hit, so that each hit deals the minimum
CycleEnemies ==
    { make_enemies(<<"STORMTROOPER", "STORMTROOPER", "REBEL_VETERAN">>),
      make_enemies(<<"JEDI_SURVIVOR">>),
      << Enemy(1, 3, 3, 12, 100, "AGGRESSIVE", FALSE, 0, 0, 0, 50, 20) >> }

CycleApply(w, position) ==
    /\ vader' = w.vader
    /\ suit' = w.suit
    /\ force_powers' = w.fps
    /\ combat_state' = w.cs
    /\ calls' = position
    /\ UNCHANGED <<boss, boss_fight, used_turn, phases_entered>>

CycleInit ==
    /\ \E health \in {150, 24}, enemies \in CycleEnemies :
          LET w == start_combat(
                       [vader |-> DarthVader(health, 100, 60),
                        suit |-> SuitSystem, fps |-> ForcePowerSystem({}),
                        cs |-> NoCombat, ret |-> NoArg], enemies)
          IN /\ vader = w.vader
             /\ suit = w.suit
             /\ force_powers = w.fps
             /\ combat_state = w.cs
    /\ boss = NoBoss
    /\ boss_fight = BossFightSystem
    /\ calls = 0
    /\ used_turn = [p \in Powers |-> 0]
    /\ phases_entered = <<>>

\* The caller attacks some living opponent
CycleAttack ==
    /\ calls = 0
    /\ combat_state.combat_active
    /\ \E t \in 1..Len(combat_state.enemies) :
          /\ combat_state.enemies[t].is_alive
          /\ CycleApply(vader_attack(World, combat_state.enemies[t].id), 1)

CycleEnemyTurn ==
    /\ calls = 1
    /\ combat_state.combat_active
    /\ \E w \in enemy_turn(World) : CycleApply(w, 2)

CycleEndTurn ==
    /\ calls = 2
    /\ combat_state.combat_active
    /\ combat_state.turn_number < MaxCombatTurns
    /\ CycleApply(end_turn(World), 0)

CycleNext ==
    \/ CycleAttack
    \/ CycleEnemyTurn
    \/ CycleEndTurn

\* The caller's loop runs for as long as the combat is active
CycleSpec ==
    /\ CycleInit
    /\ [][CycleNext]_vars
    /\ WF_vars(CycleNext)

RECURSIVE SumLivingHp(_, _)
SumLivingHp(enemies, k) ==
    IF k > Len(enemies) THEN 0
    ELSE (IF enemies[k].is_alive THEN enemies[k].current_hp ELSE 0)
             + SumLivingHp(enemies, k + 1)

\* Total HP of the living opponents of a combat
LivingHp(cs) == SumLivingHp(cs.enemies, 1)

\* C30: when every turn is vader_attack on a living opponent, enemy_turn and
\* end_turn, the combat eventually ends: every attack on a living opponent
\* succeeds and removes at least 1 HP from it, no step raises the total HP of
\* the living opponents, the attack step lowers it, and the end_turn that
\* finds no opponent alive ends the combat
C30_CombatEnds ==
    /\ [](\A t \in 1..Len(combat_state.enemies) :
             combat_state.enemies[t].is_alive =>
                LET w == vader_attack(World, combat_state.enemies[t].id)
                IN /\ w.ret.success
                   /\ w.ret.damage >= 1
                   /\ w.cs.enemies[t].current_hp
                          <= combat_state.enemies[t].current_hp - 1
                   /\ LivingHp(w.cs) < LivingHp(combat_state))
    /\ [][ /\ LivingHp(combat_state') <= LivingHp(combat_state)
           /\ calls = 0 => LivingHp(combat_state') < LivingHp(combat_state)
           /\ (calls = 2 /\ LivingHp(combat_state) = 0)
                 => ~combat_state'.combat_active ]_vars
    /\ <>(~combat_state.combat_active)

\* C30 witness: the opponent that loses 1 HP per hit has been brought from 3
\* HP to 0 and end_turn has ended the combat
C30_Witness ==
    /\ ~combat_state.combat_active
    /\ combat_state.victory_type = "total_victory"
    /\ combat_state.turn_number = 4
    /\ combat_state.enemies[1].defense = 100
    /\ combat_state.enemies[1].current_hp = 0
    /\ combat_state.total_damage_dealt = 3


====
